---- MODULE Spec2Model ----
(***************************************************************************)
(* A model of orbit-tls: the process-wide connection registry (TLSTracker, *)
(* TrackedDialer), the per-client HTTP/2 activity tracker (HTTP2Tracker),  *)
(* and the fingerprint assembly of Client.Request / updateFingerprint.     *)
(*                                                                         *)
(* Go values are represented as follows.                                   *)
(*   - a pointer or a nil-able map is an option: <<>> is nil, <<v>> is a   *)
(*     non-nil value v;                                                    *)
(*   - a map is a function whose DOMAIN is the set of keys present;        *)
(*   - a *ConnectionDetails is an index into the heap recs, 0 is nil;      *)
(*   - a nil error is the empty string.                                    *)
(***************************************************************************)
EXTENDS Integers, Sequences, FiniteSets, TLC

VARIABLES
    now,              \* the clock read by time.Now()
    recs,             \* heap of ConnectionDetails records, indexed by pointer
    connections,      \* GlobalTracker.connections: address -> pointer
    trackers,         \* per client: the HTTP2Tracker
    lastFingerprint,  \* per client: Client.lastFingerprint
    pool,             \* per client: addresses with an idle pooled connection
    th,               \* per thread: position and locals of the running call
    storeLog,         \* history: the StoreConnection calls, in order
    written,          \* history: the record fields written by the last step
    ops,              \* the number of calls begun
    clientHeaders     \* per client: Client.headers, the OrderedHeaders

vars == <<now, recs, connections, trackers, lastFingerprint, pool, th,
          storeLog, written, ops, clientHeaders>>

----------------------------------------------------------------------------
(* Bounds of the model *)

MaxOps == 2
MaxRecs == 2
MaxFrames == 3

Threads == {1, 2}

----------------------------------------------------------------------------
(* Options and maps *)

Nil == <<>>

Some(v) == <<v>>

EmptyMap == <<>>

\* for key, value := range src { dst[key] = value }
MergeMap(dst, src) ==
    [k \in (DOMAIN dst) \cup (DOMAIN src) |->
        IF k \in DOMAIN src THEN src[k] ELSE dst[k]]

----------------------------------------------------------------------------
(* fingerprint.Frame, fingerprint.HeaderPriority *)

Frame(type, streamID, length, flags, headers, settings) ==
    [Type |-> type, StreamID |-> streamID, Length |-> length,
     Flags |-> flags, Headers |-> headers, Settings |-> settings]

HeaderPriority(dep, excl, weight) ==
    [Dependency |-> dep, Exclusive |-> excl, Weight |-> weight]

FixedPriority == HeaderPriority(0, FALSE, 16)

SeqContains(s, x) == \E i \in 1..Len(s) : s[i] = x

extractPriority(frame) ==
    IF frame.Type # "HEADERS" THEN [priority |-> Nil, ok |-> FALSE]
    ELSE IF SeqContains(frame.Flags, "Priority")
         THEN [priority |-> Some(FixedPriority), ok |-> TRUE]
         ELSE [priority |-> Nil, ok |-> FALSE]

----------------------------------------------------------------------------
(* tracking.HTTP2Tracker *)

NewHTTP2Tracker ==
    [frames |-> <<>>, settings |-> EmptyMap, windowSize |-> 0, priority |-> Nil]

TrackSettingsWholeFrame(settings, frame) ==
    IF frame.Type = "SETTINGS" /\ frame.Settings # Nil
    THEN frame.Settings[1]
    ELSE settings

\* the SETTINGS branch of TrackFrame
TrackSettings(settings, frame) ==
    IF frame.Type = "SETTINGS" /\ frame.Settings # Nil
    THEN MergeMap(settings, frame.Settings[1])
    ELSE settings

TrackWindowAnyLength(windowSize, frame) ==
    IF frame.Type = "WINDOW_UPDATE" THEN frame.Length ELSE windowSize

\* the WINDOW_UPDATE branch of TrackFrame
TrackWindow(windowSize, frame) ==
    IF frame.Type = "WINDOW_UPDATE" /\ frame.Length > 0
    THEN frame.Length
    ELSE windowSize

\* the HEADERS branch of TrackFrame
TrackPriority(priority, frame) ==
    IF frame.Type = "HEADERS" /\ frame.Settings # Nil
    THEN IF extractPriority(frame).ok
         THEN extractPriority(frame).priority
         ELSE priority
    ELSE priority

TrackFramePrepend(t, frame) ==
    [frames     |-> <<frame>> \o t.frames,
     settings   |-> TrackSettings(t.settings, frame),
     windowSize |-> TrackWindow(t.windowSize, frame),
     priority   |-> TrackPriority(t.priority, frame)]

\* TrackFrame, the whole critical section under t.mu.Lock()
TrackFrame(t, frame) ==
    [frames     |-> Append(t.frames, frame),
     settings   |-> TrackSettings(t.settings, frame),
     windowSize |-> TrackWindow(t.windowSize, frame),
     priority   |-> TrackPriority(t.priority, frame)]

GetFrames(t) == t.frames

GetSettings(t) == t.settings

GetWindowSize(t) == t.windowSize

GetPriority(t) == t.priority

RECURSIVE TrackAll(_, _)
TrackAll(t, frames) ==
    IF frames = <<>> THEN t
    ELSE TrackAll(TrackFrame(t, Head(frames)), Tail(frames))

----------------------------------------------------------------------------
(* The per-browser presets *)

CreateDefaultChromeFrames ==
    << Frame("SETTINGS", 0, 24, <<>>, <<>>,
             Some([HEADER_TABLE_SIZE |-> 65536, ENABLE_PUSH |-> 0,
                   MAX_CONCURRENT_STREAMS |-> 1000,
                   INITIAL_WINDOW_SIZE |-> 6291456,
                   MAX_FRAME_SIZE |-> 16384,
                   MAX_HEADER_LIST_SIZE |-> 262144])),
       Frame("WINDOW_UPDATE", 0, 1073741824, <<>>, <<>>, Nil) >>

CreateDefaultFirefoxFrames ==
    << Frame("SETTINGS", 0, 24, <<>>, <<>>,
             Some([HEADER_TABLE_SIZE |-> 65536, ENABLE_PUSH |-> 1,
                   MAX_CONCURRENT_STREAMS |-> 1000,
                   INITIAL_WINDOW_SIZE |-> 131072,
                   MAX_FRAME_SIZE |-> 16384,
                   MAX_HEADER_LIST_SIZE |-> 262144])),
       Frame("WINDOW_UPDATE", 0, 12517376, <<>>, <<>>, Nil) >>

CreateDefaultSafariFrames ==
    << Frame("SETTINGS", 0, 20, <<>>, <<>>,
             Some([HEADER_TABLE_SIZE |-> 4096, ENABLE_PUSH |-> 1,
                   MAX_CONCURRENT_STREAMS |-> 100,
                   INITIAL_WINDOW_SIZE |-> 2097152,
                   MAX_FRAME_SIZE |-> 16384,
                   MAX_HEADER_LIST_SIZE |-> 8192])),
       Frame("WINDOW_UPDATE", 0, 2013265920, <<>>, <<>>, Nil) >>

CreateHTTP2FrameForProfile(profileName) ==
    CASE profileName \in {"Chrome120", "Edge120"} -> CreateDefaultChromeFrames
      [] profileName = "Firefox121" -> CreateDefaultFirefoxFrames
      [] profileName = "Safari17" -> CreateDefaultSafariFrames
      [] OTHER -> CreateDefaultChromeFrames

----------------------------------------------------------------------------
(* Strings: a Go string is a sequence of one-character strings *)

Digits == <<"0", "1", "2", "3", "4", "5", "6", "7", "8", "9">>

HexDigits == <<"0", "1", "2", "3", "4", "5", "6", "7", "8", "9",
               "a", "b", "c", "d", "e", "f">>

\* fmt.Sprintf("%d", n), strconv.FormatUint(n, 10)
RECURSIVE FormatUint(_)
FormatUint(n) ==
    IF n < 10 THEN <<Digits[n + 1]>>
    ELSE FormatUint(n \div 10) \o <<Digits[(n % 10) + 1]>>

\* strings.Join(parts, sep)
RECURSIVE Join(_, _)
Join(parts, sep) ==
    IF parts = <<>> THEN <<>>
    ELSE IF Len(parts) = 1 THEN parts[1]
    ELSE parts[1] \o sep \o Join(Tail(parts), sep)

\* hex.EncodeToString(bytes)
RECURSIVE HexEncodeToString(_)
HexEncodeToString(bytes) ==
    IF bytes = <<>> THEN <<>>
    ELSE <<HexDigits[(Head(bytes) \div 16) + 1],
           HexDigits[(Head(bytes) % 16) + 1]>>
         \o HexEncodeToString(Tail(bytes))

\* hex(md5.Sum(s)): the digest is kept symbolic, tagged with its input
GenerateJA3Hash(s) == <<"md5:">> \o s

\* make([]byte, length)
ZeroBytes(length) == [i \in 1..length |-> 0]

generateRandomHex(length) == HexEncodeToString(ZeroBytes(length))

----------------------------------------------------------------------------
(* The Akamai HTTP/2 fingerprint of the live path *)

SettingIDs ==
    << <<"HEADER_TABLE_SIZE", "1">>, <<"ENABLE_PUSH", "2">>,
       <<"MAX_CONCURRENT_STREAMS", "3">>, <<"INITIAL_WINDOW_SIZE", "4">>,
       <<"MAX_FRAME_SIZE", "5">>, <<"MAX_HEADER_LIST_SIZE", "6">> >>

RECURSIVE AkamaiPartsDescending(_, _)
AkamaiPartsDescending(settings, i) ==
    IF i > Len(SettingIDs) THEN <<>>
    ELSE AkamaiPartsDescending(settings, i + 1)
         \o (IF SettingIDs[i][1] \in DOMAIN settings
             THEN << <<SettingIDs[i][2], ":">>
                     \o FormatUint(settings[SettingIDs[i][1]]) >>
             ELSE <<>>)

RECURSIVE AkamaiParts(_, _)
AkamaiParts(settings, i) ==
    IF i > Len(SettingIDs) THEN <<>>
    ELSE (IF SettingIDs[i][1] \in DOMAIN settings
          THEN << <<SettingIDs[i][2], ":">>
                  \o FormatUint(settings[SettingIDs[i][1]]) >>
          ELSE <<>>)
         \o AkamaiParts(settings, i + 1)

AkamaiSuffix == <<"|", "0", "|", "m", ",", "a", ",", "p", ",", "s">>

generateAkamaiFingerprint(settings, windowUpdate, priority) ==
    Join(AkamaiParts(settings, 1), <<";">>)
        \o <<"|">> \o FormatUint(windowUpdate) \o AkamaiSuffix

ConnectionPreface == "PRI * HTTP/2.0\r\n\r\nSM\r\n\r\n"

----------------------------------------------------------------------------
(* fingerprint.ParseJA3 *)

\* strings.Split(s, sep) for a one-character separator
RECURSIVE SplitFrom(_, _, _, _)
SplitFrom(s, sep, i, cur) ==
    IF i > Len(s) THEN <<cur>>
    ELSE IF s[i] = sep THEN <<cur>> \o SplitFrom(s, sep, i + 1, <<>>)
    ELSE SplitFrom(s, sep, i + 1, Append(cur, s[i]))

Split(s, sep) == SplitFrom(s, sep, 1, <<>>)

DigitValue(c) == CHOOSE d \in 0..9 : Digits[d + 1] = c

IsDigit(c) == \E d \in 0..9 : Digits[d + 1] = c

MaxUint16 == 65535

\* strconv.ParseUint(s, 10, 16): [val, err]
RECURSIVE ParseUintFrom(_, _, _)
ParseUintFrom(s, i, acc) ==
    IF i > Len(s) THEN [val |-> acc, err |-> ""]
    ELSE IF ~IsDigit(s[i]) THEN [val |-> 0, err |-> "invalid syntax"]
    ELSE IF acc * 10 + DigitValue(s[i]) > MaxUint16
         THEN [val |-> MaxUint16, err |-> "value out of range"]
         ELSE ParseUintFrom(s, i + 1, acc * 10 + DigitValue(s[i]))

ParseUint16(s) ==
    IF s = <<>> THEN [val |-> 0, err |-> "invalid syntax"]
    ELSE ParseUintFrom(s, 1, 0)

RECURSIVE ParsePartsReversed(_)
ParsePartsReversed(parts) ==
    IF parts = <<>> THEN [val |-> <<>>, err |-> ""]
    ELSE LET h == ParseUint16(Head(parts))
             r == ParsePartsReversed(Tail(parts))
         IN  IF h.err # "" THEN [val |-> <<>>, err |-> h.err]
             ELSE IF r.err # "" THEN [val |-> <<>>, err |-> r.err]
             ELSE [val |-> r.val \o <<h.val>>, err |-> ""]

RECURSIVE ParseParts(_)
ParseParts(parts) ==
    IF parts = <<>> THEN [val |-> <<>>, err |-> ""]
    ELSE LET h == ParseUint16(Head(parts))
             r == ParseParts(Tail(parts))
         IN  IF h.err # "" THEN [val |-> <<>>, err |-> h.err]
             ELSE IF r.err # "" THEN [val |-> <<>>, err |-> r.err]
             ELSE [val |-> <<h.val>> \o r.val, err |-> ""]

parseUint16ListNoEmptyCase(s) == ParseParts(Split(s, "-"))

parseUint16List(s) ==
    IF s = <<>> THEN [val |-> <<>>, err |-> ""]
    ELSE ParseParts(Split(s, "-"))

JA3Failure(err) ==
    [tlsVersion |-> 0, cipherSuites |-> <<>>, extensions |-> <<>>,
     supportedGroups |-> <<>>, ecPointFormats |-> <<>>, err |-> err]

ParseJA3(ja3) ==
    LET parts == Split(ja3, ",")
    IN  IF Len(parts) # 5 THEN JA3Failure("invalid JA3 format")
        ELSE
        LET v  == ParseUint16(parts[1])
            c  == parseUint16List(parts[2])
            e  == parseUint16List(parts[3])
            g  == parseUint16List(parts[4])
            pf == parseUint16List(parts[5])
        IN  IF v.err # "" THEN JA3Failure(v.err)
            ELSE IF c.err # "" THEN JA3Failure(c.err)
            ELSE IF e.err # "" THEN JA3Failure(e.err)
            ELSE IF g.err # "" THEN JA3Failure(g.err)
            ELSE IF pf.err # "" THEN JA3Failure(pf.err)
            ELSE [tlsVersion |-> v.val, cipherSuites |-> c.val,
                  extensions |-> e.val, supportedGroups |-> g.val,
                  ecPointFormats |-> pf.val, err |-> ""]

----------------------------------------------------------------------------
(* Profiles: the two package-level clients the model runs *)

Clients == {"Chrome120", "Firefox121"}

\* NewOrderedHeaders(): no header
NewOrderedHeaders == <<>>

ChromeJA3 ==
    <<"7", "7", "1", ",", "4", "8", "6", "5", "-", "4", "8", "6", "6",
      "-", "4", "8", "6", "7", ",", "0", "-", "2", "3", "-", "6", "5",
      "2", "8", "1", ",", "2", "9", "-", "2", "3", "-", "2", "4", ",",
      "0">>

FirefoxJA3 ==
    <<"7", "7", "1", ",", "4", "8", "6", "5", "-", "4", "8", "6", "6",
      ",", "0", "-", "2", "3", ",", "2", "9", "-", "2", "3", ",", "0">>

\* templates ParseJA3 rejects: four fields, a field that is no number, a
\* number that does not fit 16 bits
FourFieldJA3 == <<"7", "7", "1", ",", "4", "8", "6", "5", ",", "0", ",",
                  "2", "9">>

NotANumberJA3 == <<"7", "7", "1", ",", "4", "8", "x", "5", ",", "0", ",",
                   "2", "9", ",", "0">>

OutOfRangeJA3 == <<"7", "7", "1", ",", "7", "0", "0", "0", "0", ",", "0",
                   ",", "2", "9", ",", "0">>

MalformedProfiles == {"FourFields", "NotANumber", "OutOfRange"}

\* profiles.Get(name): the part of the descriptor the assembly reads
Profile(name) ==
    [Name |-> name,
     JA3  |-> CASE name = "Firefox121" -> FirefoxJA3
                [] name = "FourFields" -> FourFieldJA3
                [] name = "NotANumber" -> NotANumberJA3
                [] name = "OutOfRange" -> OutOfRangeJA3
                [] OTHER -> ChromeJA3]

----------------------------------------------------------------------------
(* tracking.ConnectionDetails and the assembly of a fingerprint.Data *)

\* &ConnectionDetails{ConnectedAt: time.Now(), ServerName: config.ServerName}
NewDetails(connectedAt, serverName) ==
    [ClientRandom |-> <<>>, SessionID |-> <<>>, CipherSuite |-> 0,
     TLSVersion |-> 0, SignatureAlgorithms |-> <<>>, ALPNProtocols |-> <<>>,
     ServerName |-> serverName, PeerCertificates |-> <<>>,
     HandshakeComplete |-> FALSE, ConnectedAt |-> connectedAt,
     HTTP2Settings |-> Nil, HTTP2Frames |-> <<>>, HTTP2WindowUpdate |-> 0,
     HTTP2Priority |-> Nil]

TLSFields ==
    {"ClientRandom", "SessionID", "CipherSuite", "TLSVersion",
     "SignatureAlgorithms", "ALPNProtocols", "ServerName",
     "PeerCertificates", "HandshakeComplete", "ConnectedAt"}

HTTP2Fields ==
    {"HTTP2Settings", "HTTP2Frames", "HTTP2WindowUpdate", "HTTP2Priority"}

MapLenNonNil(m) == IF m = Nil THEN 0 ELSE 1

\* len(m) of a nil-able map
MapLen(m) == IF m = Nil THEN 0 ELSE Cardinality(DOMAIN m[1])

MapOf(m) == IF m = Nil THEN EmptyMap ELSE m[1]

\* fmt.Sprintf("%04x", n) of a uint16
Hex4(n) ==
    <<HexDigits[(n \div 4096) + 1], HexDigits[((n \div 256) % 16) + 1],
      HexDigits[((n \div 16) % 16) + 1], HexDigits[(n % 16) + 1]>>

HexAll(ids) == [i \in 1..Len(ids) |-> Hex4(ids[i])]

\* the place of a hexadecimal digit in the byte order of strings
HexRank(c) == CHOOSE r \in 1..16 : HexDigits[r] = c

\* a < b for strings of hexadecimal digits, byte by byte
RECURSIVE StringLess(_, _)
StringLess(a, b) ==
    IF b = <<>> THEN FALSE
    ELSE IF a = <<>> THEN TRUE
    ELSE IF Head(a) # Head(b) THEN HexRank(Head(a)) < HexRank(Head(b))
    ELSE StringLess(Tail(a), Tail(b))

RECURSIVE InsertString(_, _)
InsertString(sorted, x) ==
    IF sorted = <<>> THEN <<x>>
    ELSE IF StringLess(x, Head(sorted)) THEN <<x>> \o sorted
    ELSE <<Head(sorted)>> \o InsertString(Tail(sorted), x)

\* sort.Strings
RECURSIVE SortStrings(_)
SortStrings(strs) ==
    IF strs = <<>> THEN <<>>
    ELSE InsertString(SortStrings(Tail(strs)), Head(strs))

\* the version and protocol letters of JA4 and JA4_R
JA4Version(tlsVersion) ==
    IF tlsVersion = 771 THEN <<"1", "2">>
    ELSE IF tlsVersion = 770 THEN <<"1", "1">>
    ELSE <<"1", "3">>

JA4ProtoFirstOnly(alpnProtocols) ==
    IF Len(alpnProtocols) > 0
    THEN IF alpnProtocols[1] = "h2" THEN <<"h", "2">>
         ELSE IF alpnProtocols[1] = "http/1.1" THEN <<"h", "1">>
         ELSE <<"d">>
    ELSE <<"d">>

JA4Proto(alpnProtocols) ==
    IF Len(alpnProtocols) > 0
    THEN IF SeqContains(alpnProtocols, "h2") THEN <<"h", "2">>
         ELSE IF SeqContains(alpnProtocols, "http/1.1") THEN <<"h", "1">>
         ELSE <<"d">>
    ELSE <<"d">>

GenerateJA4Unsorted(tlsVersion, cipherSuites, extensions, supportedGroups, alpnProtocols) ==
    <<"t">> \o JA4Version(tlsVersion) \o JA4Proto(alpnProtocols)
        \o <<"1", "5", "1", "6", "_">>
        \o Join(HexAll(cipherSuites), <<",">>) \o <<"_">>
        \o Join(HexAll(extensions), <<",">>)

GenerateJA4(tlsVersion, cipherSuites, extensions, supportedGroups, alpnProtocols) ==
    <<"t">> \o JA4Version(tlsVersion) \o JA4Proto(alpnProtocols)
        \o <<"1", "5", "1", "6", "_">>
        \o Join(SortStrings(HexAll(cipherSuites)), <<",">>) \o <<"_">>
        \o Join(SortStrings(HexAll(extensions)), <<",">>)

GenerateJA4R(tlsVersion, cipherSuites, extensions, supportedGroups, alpnProtocols) ==
    <<"t">> \o JA4Version(tlsVersion) \o JA4Proto(alpnProtocols)
        \o <<"_">> \o Join(HexAll(cipherSuites), <<",">>)
        \o <<"_">> \o Join(HexAll(extensions), <<",">>)
        \o <<"_">> \o Join(HexAll(supportedGroups), <<",">>)

formatUint16Slice(slice) ==
    Join([i \in 1..Len(slice) |-> FormatUint(slice[i])], <<"-">>)

GeneratePeetPrintOmitEmpty(tlsVersionNegotiated, tlsVersionRecord, cipherSuites, extensions, supportedGroups, signatureAlgorithms) ==
    Join(SelectSeq(<< FormatUint(tlsVersionNegotiated) \o <<"-">>
                          \o FormatUint(tlsVersionRecord),
                      formatUint16Slice(supportedGroups),
                      formatUint16Slice(signatureAlgorithms),
                      formatUint16Slice(extensions),
                      formatUint16Slice(cipherSuites) >>,
                   LAMBDA part : part # <<>>), <<"|">>)

GeneratePeetPrint(tlsVersionNegotiated, tlsVersionRecord, cipherSuites, extensions, supportedGroups, signatureAlgorithms) ==
    Join(<< FormatUint(tlsVersionNegotiated) \o <<"-">>
                \o FormatUint(tlsVersionRecord),
            formatUint16Slice(supportedGroups),
            formatUint16Slice(signatureAlgorithms),
            formatUint16Slice(extensions),
            formatUint16Slice(cipherSuites) >>, <<"|">>)

\* hex(sha256.Sum256(s)): the digest is kept symbolic, tagged with its input
GeneratePeetPrintHash(peetPrint) == <<"sha256:">> \o peetPrint

generateFallbackFingerprintNoPlaceholder(profile) ==
    [TLSVersion |-> <<>>, TLSVersionRecord |-> <<>>,
     TLSVersionNegotiated |-> <<>>,
     JA3 |-> profile.JA3, JA3Hash |-> GenerateJA3Hash(profile.JA3),
     JA4 |-> <<>>, JA4_R |-> <<>>, PeetPrint |-> <<>>,
     PeetPrintHash |-> <<>>,
     ClientRandom |-> generateRandomHex(0),
     SessionID |-> generateRandomHex(0),
     HTTP2 |-> Nil, AkamaiFP |-> <<>>, AkamaiFPHash |-> <<>>]

generateFallbackFingerprintWithJA4(profile) ==
    LET ja3 == ParseJA3(profile.JA3)
    IN  [TLSVersion |-> <<>>, TLSVersionRecord |-> <<>>,
         TLSVersionNegotiated |-> <<>>,
         JA3 |-> profile.JA3, JA3Hash |-> GenerateJA3Hash(profile.JA3),
         JA4 |-> GenerateJA4(ja3.tlsVersion, ja3.cipherSuites,
                             ja3.extensions, ja3.supportedGroups,
                             <<"h2", "http/1.1">>),
         JA4_R |-> GenerateJA4R(ja3.tlsVersion, ja3.cipherSuites,
                                ja3.extensions, ja3.supportedGroups,
                                <<"h2", "http/1.1">>),
         PeetPrint |-> <<>>, PeetPrintHash |-> <<>>,
         ClientRandom |-> generateRandomHex(32),
         SessionID |-> generateRandomHex(32),
         HTTP2 |-> Nil, AkamaiFP |-> <<>>, AkamaiFPHash |-> <<>>]

generateFallbackFingerprint(profile) ==
    [TLSVersion |-> <<>>, TLSVersionRecord |-> <<>>,
     TLSVersionNegotiated |-> <<>>,
     JA3 |-> profile.JA3, JA3Hash |-> GenerateJA3Hash(profile.JA3),
     JA4 |-> <<>>, JA4_R |-> <<>>, PeetPrint |-> <<>>,
     PeetPrintHash |-> <<>>,
     ClientRandom |-> generateRandomHex(32),
     SessionID |-> generateRandomHex(32),
     HTTP2 |-> Nil, AkamaiFP |-> <<>>, AkamaiFPHash |-> <<>>]

AssembleFullTemplateVersion(profile, d, ja3) ==
    LET peet == GeneratePeetPrint(ja3.tlsVersion, ja3.tlsVersion,
                                  ja3.cipherSuites, ja3.extensions,
                                  ja3.supportedGroups, d.SignatureAlgorithms)
    IN  [generateFallbackFingerprint(profile) EXCEPT
            !.TLSVersion = FormatUint(d.TLSVersion),
            !.TLSVersionRecord = FormatUint(ja3.tlsVersion),
            !.TLSVersionNegotiated = FormatUint(d.TLSVersion),
            !.JA4 = GenerateJA4(ja3.tlsVersion, ja3.cipherSuites,
                                ja3.extensions, ja3.supportedGroups,
                                d.ALPNProtocols),
            !.JA4_R = GenerateJA4R(ja3.tlsVersion, ja3.cipherSuites,
                                   ja3.extensions, ja3.supportedGroups,
                                   d.ALPNProtocols),
            !.PeetPrint = peet,
            !.PeetPrintHash = GeneratePeetPrintHash(peet),
            !.ClientRandom = HexEncodeToString(d.ClientRandom),
            !.SessionID = HexEncodeToString(d.SessionID)]

\* GenerateFingerprintData lines 166-217: the record built from the
\* details d and the parsed template ja3
AssembleFull(profile, d, ja3) ==
    LET has == MapLen(d.HTTP2Settings) > 0
        akamai == generateAkamaiFingerprint(MapOf(d.HTTP2Settings),
                                            d.HTTP2WindowUpdate,
                                            d.HTTP2Priority)
        peet == GeneratePeetPrint(d.TLSVersion, ja3.tlsVersion,
                                  ja3.cipherSuites, ja3.extensions,
                                  ja3.supportedGroups, d.SignatureAlgorithms)
    IN  [TLSVersion |-> FormatUint(d.TLSVersion),
         TLSVersionRecord |-> FormatUint(ja3.tlsVersion),
         TLSVersionNegotiated |-> FormatUint(d.TLSVersion),
         JA3 |-> profile.JA3, JA3Hash |-> GenerateJA3Hash(profile.JA3),
         JA4 |-> GenerateJA4(d.TLSVersion, ja3.cipherSuites, ja3.extensions,
                             ja3.supportedGroups, d.ALPNProtocols),
         JA4_R |-> GenerateJA4R(d.TLSVersion, ja3.cipherSuites,
                                ja3.extensions, ja3.supportedGroups,
                                d.ALPNProtocols),
         PeetPrint |-> peet, PeetPrintHash |-> GeneratePeetPrintHash(peet),
         ClientRandom |-> HexEncodeToString(d.ClientRandom),
         SessionID |-> HexEncodeToString(d.SessionID),
         HTTP2 |-> IF has
                   THEN Some([Settings |-> MapOf(d.HTTP2Settings),
                              WindowUpdate |-> d.HTTP2WindowUpdate,
                              HeaderPriority |-> d.HTTP2Priority,
                              SentFrames |-> d.HTTP2Frames,
                              ConnectionPreface |-> ConnectionPreface])
                   ELSE Nil,
         AkamaiFP |-> IF has THEN akamai ELSE <<>>,
         AkamaiFPHash |-> IF has THEN GenerateJA3Hash(akamai) ELSE <<>>]

GenerateFromDetailsUnchecked(profile, d) ==
    AssembleFull(profile, d, ParseJA3(profile.JA3))

\* GenerateFingerprintData with details != nil; d is the record pointed to
GenerateFromDetails(profile, d) ==
    LET ja3 == ParseJA3(profile.JA3)
    IN  IF ja3.err # "" THEN generateFallbackFingerprint(profile)
        ELSE AssembleFull(profile, d, ja3)

\* GenerateFingerprintData(profile, details): d is Nil for a nil pointer
\* and Some(record) for a pointer to record
GenerateFingerprintData(profile, d) ==
    IF d = Nil THEN generateFallbackFingerprint(profile)
    ELSE GenerateFromDetails(profile, d[1])

\* what a pointer shows at the moment it is read: 0 is nil
Deref(heap, details) == IF details = 0 THEN Nil ELSE Some(heap[details])

----------------------------------------------------------------------------
(* tracking.TLSTracker: the registry *)

Addrs == {"a.example:443", "b.example:443"}

NewTLSTracker == EmptyMap

StoreConnectionKeepFirst(conns, addr, details) ==
    [a \in (DOMAIN conns) \cup {addr} |->
        IF a \in DOMAIN conns THEN conns[a] ELSE details]

StoreConnectionReplaceAll(conns, addr, details) ==
    [a \in {addr} |-> details]

\* t.connections[addr] = details, under t.mu.Lock()
StoreConnection(conns, addr, details) ==
    [a \in (DOMAIN conns) \cup {addr} |->
        IF a = addr THEN details ELSE conns[a]]

\* details, exists := t.connections[addr], under t.mu.RLock()
GetConnection(conns, addr) ==
    IF addr \in DOMAIN conns
    THEN [details |-> conns[addr], exists |-> TRUE]
    ELSE [details |-> 0, exists |-> FALSE]

GetAllConnectionsNoCopy(conns) == [alias |-> TRUE, m |-> EmptyMap]

\* A map handle: alias says whether it is the registry's own map or a map
\* of its own, m.  GetAllConnections fills a fresh map under t.mu.RLock().
GetAllConnections(conns) ==
    [alias |-> FALSE, m |-> [k \in DOMAIN conns |-> conns[k]]]

NoSnapshot == [alias |-> FALSE, m |-> EmptyMap]

\* the map a handle denotes
MapThrough(handle, conns) == IF handle.alias THEN conns ELSE handle.m

\* delete(m, key) and m[key] = nil through a handle
MapDelete(m, key) == [k \in (DOMAIN m) \ {key} |-> m[k]]

MapSet(m, key, val) ==
    [k \in (DOMAIN m) \cup {key} |-> IF k = key THEN val ELSE m[k]]

----------------------------------------------------------------------------
(* tracking.TrackedDialer *)

\* what the server at addr negotiates: version and cipher suite
Negotiated(addr) ==
    IF addr = "a.example:443"
    THEN [Version |-> 772, CipherSuite |-> 4865]
    ELSE [Version |-> 771, CipherSuite |-> 49199]

\* tls.ConnectionState of a connection to addr
ConnectionState(addr, complete) ==
    [Version |-> Negotiated(addr).Version,
     CipherSuite |-> Negotiated(addr).CipherSuite,
     PeerCertificates |-> <<addr>>, HandshakeComplete |-> complete]

NoState ==
    [Version |-> 0, CipherSuite |-> 0, PeerCertificates |-> <<>>,
     HandshakeComplete |-> FALSE]

\* the errors tls.Dial returns before the verification hook runs, and after it
DialErrors == {"dial tcp: connection refused"}

LateErrors == {"tls: handshake failure"}

HookError == "verify: rejected by caller"

VerifyCaptureWithHello(d, cs) ==
    [d EXCEPT !.TLSVersion = cs.Version,
              !.CipherSuite = cs.CipherSuite,
              !.PeerCertificates =
                  IF Len(cs.PeerCertificates) > 0
                  THEN cs.PeerCertificates ELSE @,
              !.HandshakeComplete = TRUE,
              !.ALPNProtocols = <<"h2">>,
              !.SignatureAlgorithms = <<1027>>]

\* the capture of the installed VerifyConnection hook
VerifyCapture(d, cs) ==
    [d EXCEPT !.TLSVersion = cs.Version,
              !.CipherSuite = cs.CipherSuite,
              !.PeerCertificates =
                  IF Len(cs.PeerCertificates) > 0
                  THEN cs.PeerCertificates ELSE @,
              !.HandshakeComplete = TRUE]

VerifyConnectionIgnoreOriginal(d, cs, hook) ==
    [details |-> VerifyCapture(d, cs),
     called |-> IF hook = "none" THEN 0 ELSE 1,
     sawCaptured |-> hook # "none",
     err |-> ""]

\* The installed hook: capture, then the caller's hook if there is one.
\* hook is "none" (original.VerifyConnection == nil), "ok" or "err" (what
\* the caller's hook returns); called and sawCaptured are the history of
\* the call to it.
VerifyConnection(d, cs, hook) ==
    [details |-> VerifyCapture(d, cs),
     called |-> IF hook = "none" THEN 0 ELSE 1,
     sawCaptured |-> hook # "none" /\ VerifyCapture(d, cs).HandshakeComplete,
     err |-> IF hook = "err" THEN HookError ELSE ""]

CaptureStateSwapped(d, state) ==
    [d EXCEPT !.TLSVersion = state.CipherSuite,
              !.CipherSuite = state.Version,
              !.HandshakeComplete = state.HandshakeComplete,
              !.PeerCertificates =
                  IF Len(state.PeerCertificates) > 0
                  THEN state.PeerCertificates ELSE @]

\* updateConnectionDetails before StoreConnection: the second capture
CaptureState(d, state) ==
    [d EXCEPT !.TLSVersion = state.Version,
              !.CipherSuite = state.CipherSuite,
              !.HandshakeComplete = state.HandshakeComplete,
              !.PeerCertificates =
                  IF Len(state.PeerCertificates) > 0
                  THEN state.PeerCertificates ELSE @]

CaptureWrites(state) ==
    {"TLSVersion", "CipherSuite", "HandshakeComplete"}
        \cup (IF Len(state.PeerCertificates) > 0
              THEN {"PeerCertificates"} ELSE {})

DialTLSStoreOnError(conns, addr, details, err) ==
    [connections |-> StoreConnection(conns, addr, details), err |-> err]

\* DialTLS when tls.Dial returned err != nil: return nil, err
DialTLSOnError(conns, addr, details, err) ==
    [connections |-> conns, err |-> err]

----------------------------------------------------------------------------
(* client.Client: construction and updateFingerprint *)

\* the enumerations of a map's keys: the orders a range loop may take
Orders(S) ==
    {o \in [1..Cardinality(S) -> S] :
        \A i, j \in 1..Cardinality(S) : i # j => o[i] # o[j]}

SelectOwnAddress(heap, m, order, own) ==
    IF own \in DOMAIN m THEN m[own] ELSE 0

\* for _, conn := range connections { if conn.ConnectedAt.After(latestTime)
\* { latestTime = conn.ConnectedAt; details = conn } }, in iteration order.
\* own, the address of the running request, is not read.
RECURSIVE SelectFrom(_, _, _, _, _, _)
SelectFrom(heap, m, order, i, latestTime, details) ==
    IF i > Len(order) THEN details
    ELSE IF heap[m[order[i]]].ConnectedAt > latestTime
         THEN SelectFrom(heap, m, order, i + 1,
                         heap[m[order[i]]].ConnectedAt, m[order[i]])
         ELSE SelectFrom(heap, m, order, i + 1, latestTime, details)

SelectLatest(heap, m, order, own) == SelectFrom(heap, m, order, 1, 0, 0)

\* The synthetic HEADERS frame of Request; the length estimate and the
\* header list are those of the one request shape the model sends.
HeadersFrame ==
    Frame("HEADERS", 1, 40, <<"EndStream", "EndHeaders">>, <<>>, Nil)

\* client.New(profileName), from the tracker of line 185 on
NewClientTracker(profileName) ==
    TrackAll(NewHTTP2Tracker, CreateHTTP2FrameForProfile(profileName))

----------------------------------------------------------------------------
(* Threads *)

IdleThread ==
    [pc |-> "idle", op |-> "none", client |-> "none", addr |-> "none",
     hook |-> "none", details |-> 0, cs |-> NoState, tlsErr |-> "",
     dialRet |-> "", err |-> "", hookCalls |-> 0, verifyCalls |-> 0,
     sawCaptured |-> FALSE, snap |-> NoSnapshot, sel |-> 0,
     mine |-> Nil, resp |-> Nil]

\* A *fingerprint.Data is kept as the arguments GenerateFingerprintData
\* was called with, the profile and what details pointed to at that
\* moment; FingerprintOf gives the record itself.  from and by are
\* history: the pointer it was assembled from, the thread that did it.
Assembled(profileName, d, from, by) ==
    [profile |-> profileName, d |-> d, from |-> from, by |-> by]

FingerprintOfPerCall(x) ==
    [GenerateFingerprintData(Profile(x.profile), x.d)
        EXCEPT !.SessionID = HexEncodeToString(<<x.by>>)]

FingerprintOfHandshakeVersion(x) ==
    LET r == GenerateFingerprintData(Profile(x.profile), x.d)
    IN  IF x.d = Nil THEN r
        ELSE [r EXCEPT !.JA3 = r.TLSVersionNegotiated
                                   \o SubSeq(r.JA3, 4, Len(r.JA3))]

FingerprintOf(x) == GenerateFingerprintData(Profile(x.profile), x.d)

Init ==
    /\ now = 1
    /\ recs = <<>>
    /\ connections = NewTLSTracker
    /\ trackers = [c \in Clients |-> NewClientTracker(c)]
    /\ lastFingerprint =
           [c \in Clients |-> Assembled(c, Deref(recs, 0), 0, 0)]
    /\ pool = [c \in Clients |-> {}]
    /\ th = [t \in Threads |-> IdleThread]
    /\ storeLog = <<>>
    /\ written = {}
    /\ ops = 0
    /\ clientHeaders = [c \in Clients |-> NewOrderedHeaders]

\* a thread takes up its next call
Begin(t) ==
    /\ th[t].pc \in {"idle", "done"}
    /\ ops < MaxOps
    /\ ops' = ops + 1

\* the errors Request returns before it tracks anything: url.Parse fails,
\* the body has an unsupported type
RejectErrors == {"invalid URL", "unsupported body type"}

\* Client.Request lines 289-318 when the URL or the body is rejected
RejectRequest(t, c, e) ==
    /\ Begin(t)
    /\ th' = [th EXCEPT ![t] =
                 [IdleThread EXCEPT !.op = "request", !.pc = "done",
                                    !.client = c, !.err = e]]
    /\ written' = {}
    /\ UNCHANGED <<now, recs, connections, trackers, lastFingerprint, pool,
                   storeLog, clientHeaders>>

TrackRequestOnSuccessOnly(tracker) == tracker

\* Client.Request lines 331-341: the synthetic HEADERS frame is tracked
TrackRequest(tracker) == TrackFrame(tracker, HeadersFrame)

\* Client.Request lines 289-341: the request is built and its synthetic
\* HEADERS frame tracked
StartRequest(t, c, a) ==
    /\ Begin(t)
    /\ trackers' = [trackers EXCEPT ![c] = TrackRequest(@)]
    /\ th' = [th EXCEPT ![t] =
                 [IdleThread EXCEPT !.op = "request", !.pc = "do",
                                    !.client = c, !.addr = a]]
    /\ written' = {}
    /\ UNCHANGED <<now, recs, connections, lastFingerprint, pool, storeLog, clientHeaders>>

\* c.httpClient.Do(req) on an idle pooled connection: no dial
DoReuse(t) ==
    /\ th[t].pc = "do"
    /\ th[t].addr \in pool[th[t].client]
    /\ th' = [th EXCEPT ![t].pc = "await"]
    /\ written' = {}
    /\ UNCHANGED <<now, recs, connections, trackers, lastFingerprint, pool,
                   storeLog, ops, clientHeaders>>

\* DialTLS lines 66-69: the details record of this dial; the clock may
\* or may not have advanced since it was last read
DialBegin(serverName, dt) ==
    /\ Len(recs) < MaxRecs
    /\ now' = now + dt
    /\ recs' = Append(recs, NewDetails(now', serverName))
    /\ written' = {<<Len(recs) + 1, "ConnectedAt">>,
                   <<Len(recs) + 1, "ServerName">>}

\* c.httpClient.Do(req) dialing through DialTLSContext
DoDial(t) ==
    /\ th[t].pc = "do"
    /\ \E dt \in {0, 1} : DialBegin("", dt)
    /\ th' = [th EXCEPT ![t].pc = "handshake", ![t].details = Len(recs) + 1]
    /\ UNCHANGED <<connections, trackers, lastFingerprint, pool, storeLog,
                   ops, clientHeaders>>

\* a direct call of TrackedDialer.DialTLS with the caller's own config
StartDial(t, a, hook) ==
    /\ Begin(t)
    /\ \E dt \in {0, 1} : DialBegin(a, dt)
    /\ th' = [th EXCEPT ![t] =
                 [IdleThread EXCEPT !.op = "dial", !.pc = "handshake",
                                    !.addr = a, !.hook = hook,
                                    !.details = Len(recs) + 1]]
    /\ UNCHANGED <<connections, trackers, lastFingerprint, pool, storeLog, clientHeaders>>

\* the return of a failed call: DialTLS returns tls.Dial's error; Request
\* wraps it ("request failed: %w")
Failed(t, res) ==
    [th[t] EXCEPT !.pc = "done", !.tlsErr = res.tlsErr,
                  !.dialRet = res.err,
                  !.err = IF th[t].op = "request"
                          THEN "request failed" ELSE res.err]

\* tls.Dial fails before the peer's certificate is verified
HandshakeFail(t, e) ==
    /\ th[t].pc = "handshake"
    /\ LET r == DialTLSOnError(connections, th[t].addr, th[t].details, e)
       IN  /\ connections' = r.connections
           /\ th' = [th EXCEPT ![t] = Failed(t, [tlsErr |-> e, err |-> r.err])]
    /\ written' = {}
    /\ UNCHANGED <<now, recs, trackers, lastFingerprint, pool, storeLog, ops, clientHeaders>>

\* the handshake reaches the installed VerifyConnection hook; the round
\* trips before it take time
Verify(t) ==
    /\ th[t].pc = "handshake"
    /\ now' = now + 1
    /\ LET cs == ConnectionState(th[t].addr, FALSE)
           v  == VerifyConnection(recs[th[t].details], cs, th[t].hook)
           r  == DialTLSOnError(connections, th[t].addr, th[t].details, v.err)
       IN  /\ recs' = [recs EXCEPT ![th[t].details] = v.details]
           /\ written' = {<<th[t].details, f>> : f \in CaptureWrites(cs)}
           /\ IF v.err # ""
              THEN /\ connections' = r.connections
                   /\ th' = [th EXCEPT ![t] =
                          [Failed(t, [tlsErr |-> v.err, err |-> r.err])
                             EXCEPT !.verifyCalls = @ + 1,
                                    !.hookCalls = @ + v.called,
                                    !.sawCaptured = v.sawCaptured]]
              ELSE /\ connections' = connections
                   /\ th' = [th EXCEPT ![t].pc = "finish", ![t].cs = cs,
                                       ![t].verifyCalls = @ + 1,
                                       ![t].hookCalls = @ + v.called,
                                       ![t].sawCaptured = v.sawCaptured]
    /\ UNCHANGED <<trackers, lastFingerprint, pool, storeLog, ops, clientHeaders>>

\* the handshake fails after the hook has run
HandshakeLateFail(t, e) ==
    /\ th[t].pc = "finish"
    /\ LET r == DialTLSOnError(connections, th[t].addr, th[t].details, e)
       IN  /\ connections' = r.connections
           /\ th' = [th EXCEPT ![t] =
                  [Failed(t, [tlsErr |-> e, err |-> r.err])
                     EXCEPT !.cs = NoState]]
    /\ written' = {}
    /\ UNCHANGED <<now, recs, trackers, lastFingerprint, pool, storeLog, ops, clientHeaders>>

\* tls.Dial returns the connection; updateConnectionDetails lines 110-121
\* capture its state again
UpdateDetails(t) ==
    /\ th[t].pc = "finish"
    /\ LET state == [th[t].cs EXCEPT !.HandshakeComplete = TRUE]
       IN  /\ recs' = [recs EXCEPT ![th[t].details] = CaptureState(@, state)]
           /\ written' = {<<th[t].details, f>> : f \in CaptureWrites(state)}
    /\ th' = [th EXCEPT ![t].pc = "store", ![t].cs = NoState]
    /\ UNCHANGED <<now, connections, trackers, lastFingerprint, pool,
                   storeLog, ops, clientHeaders>>

\* td.tracker.StoreConnection(addr, details); DialTLS returns conn, nil
Store(t) ==
    /\ th[t].pc = "store"
    /\ connections' = StoreConnection(connections, th[t].addr, th[t].details)
    /\ storeLog' = Append(storeLog,
                          [addr |-> th[t].addr, details |-> th[t].details,
                           value |-> recs[th[t].details]])
    /\ th' = [th EXCEPT ![t].pc =
                 IF th[t].op = "request" THEN "await" ELSE "done"]
    /\ written' = {}
    /\ UNCHANGED <<now, recs, trackers, lastFingerprint, pool, ops, clientHeaders>>

\* c.httpClient.Do(req) and io.ReadAll(resp.Body) succeed; the connection
\* goes back to the transport's idle pool
ResponseOK(t) ==
    /\ th[t].pc = "await"
    /\ pool' = [pool EXCEPT ![th[t].client] = @ \cup {th[t].addr}]
    /\ th' = [th EXCEPT ![t].pc = "snap"]
    /\ written' = {}
    /\ UNCHANGED <<now, recs, connections, trackers, lastFingerprint,
                   storeLog, ops, clientHeaders>>

ResponseFailRefreshing(t) ==
    /\ th[t].pc \in {"do", "await"}
    /\ th' = [th EXCEPT ![t].pc = "done", ![t].err = "request failed"]
    /\ lastFingerprint' =
           [lastFingerprint EXCEPT ![th[t].client] =
               Assembled(th[t].client, Nil, 0, t)]
    /\ written' = {}
    /\ UNCHANGED <<now, recs, connections, trackers, pool, storeLog, ops,
                   clientHeaders>>

\* the round trip or the body read fails: Request returns the error
ResponseFail(t) ==
    /\ th[t].pc \in {"do", "await"}
    /\ th' = [th EXCEPT ![t].pc = "done", ![t].err = "request failed"]
    /\ written' = {}
    /\ UNCHANGED <<now, recs, connections, trackers, lastFingerprint, pool,
                   storeLog, ops, clientHeaders>>

\* updateFingerprint lines 369-378: the snapshot and the latest entry
SnapshotAndSelect(t) ==
    /\ th[t].pc = "snap"
    /\ LET h == GetAllConnections(connections)
           m == MapThrough(h, connections)
       IN  \E order \in Orders(DOMAIN m) :
              LET d == SelectLatest(recs, m, order, th[t].addr)
              IN  th' = [th EXCEPT ![t].snap = h, ![t].sel = d,
                                   ![t].pc = IF d # 0 THEN "wrS" ELSE "gen"]
    /\ written' = {}
    /\ UNCHANGED <<now, recs, connections, trackers, lastFingerprint, pool,
                   storeLog, ops, clientHeaders>>

\* details.HTTP2Settings = c.http2Tracker.GetSettings()
WriteSettings(t) ==
    /\ th[t].pc = "wrS"
    /\ recs' = [recs EXCEPT ![th[t].sel].HTTP2Settings =
                   Some(GetSettings(trackers[th[t].client]))]
    /\ written' = {<<th[t].sel, "HTTP2Settings">>}
    /\ th' = [th EXCEPT ![t].pc = "wrF"]
    /\ UNCHANGED <<now, connections, trackers, lastFingerprint, pool,
                   storeLog, ops, clientHeaders>>

\* details.HTTP2Frames = c.http2Tracker.GetFrames()
WriteFrames(t) ==
    /\ th[t].pc = "wrF"
    /\ recs' = [recs EXCEPT ![th[t].sel].HTTP2Frames =
                   GetFrames(trackers[th[t].client])]
    /\ written' = {<<th[t].sel, "HTTP2Frames">>}
    /\ th' = [th EXCEPT ![t].pc = "wrW"]
    /\ UNCHANGED <<now, connections, trackers, lastFingerprint, pool,
                   storeLog, ops, clientHeaders>>

\* details.HTTP2WindowUpdate = c.http2Tracker.GetWindowSize()
WriteWindow(t) ==
    /\ th[t].pc = "wrW"
    /\ recs' = [recs EXCEPT ![th[t].sel].HTTP2WindowUpdate =
                   GetWindowSize(trackers[th[t].client])]
    /\ written' = {<<th[t].sel, "HTTP2WindowUpdate">>}
    /\ th' = [th EXCEPT ![t].pc = "wrP"]
    /\ UNCHANGED <<now, connections, trackers, lastFingerprint, pool,
                   storeLog, ops, clientHeaders>>

\* details.HTTP2Priority = c.http2Tracker.GetPriority()
WritePriority(t) ==
    /\ th[t].pc = "wrP"
    /\ recs' = [recs EXCEPT ![th[t].sel].HTTP2Priority =
                   GetPriority(trackers[th[t].client])]
    /\ written' = {<<th[t].sel, "HTTP2Priority">>}
    /\ th' = [th EXCEPT ![t].pc = "gen"]
    /\ UNCHANGED <<now, connections, trackers, lastFingerprint, pool,
                   storeLog, ops, clientHeaders>>

\* c.lastFingerprint = tracking.GenerateFingerprintData(c.profile, details)
Generate(t) ==
    /\ th[t].pc = "gen"
    /\ LET fp == Assembled(th[t].client, Deref(recs, th[t].sel),
                            th[t].sel, t)
       IN  /\ lastFingerprint' = [lastFingerprint EXCEPT ![th[t].client] = fp]
           /\ th' = [th EXCEPT ![t].pc = "ret", ![t].mine = Some(fp)]
    /\ written' = {}
    /\ UNCHANGED <<now, recs, connections, trackers, pool, storeLog, ops, clientHeaders>>

\* response := &Response{..., Fingerprint: c.lastFingerprint}
Respond(t) ==
    /\ th[t].pc = "ret"
    /\ th' = [th EXCEPT ![t].pc = "done",
                        ![t].resp = Some(lastFingerprint[th[t].client])]
    /\ written' = {}
    /\ UNCHANGED <<now, recs, connections, trackers, lastFingerprint, pool,
                   storeLog, ops, clientHeaders>>

\* a caller of GetAllConnections that goes on to change the map it got
StartSnapshot(t) ==
    /\ Begin(t)
    /\ th' = [th EXCEPT ![t] =
                 [IdleThread EXCEPT !.op = "snapshot", !.pc = "mutate",
                                    !.snap = GetAllConnections(connections)]]
    /\ written' = {}
    /\ UNCHANGED <<now, recs, connections, trackers, lastFingerprint, pool,
                   storeLog, clientHeaders>>

\* the map after the caller's change, written through the handle
ChangeThrough(t, m2) ==
    /\ IF th[t].snap.alias
       THEN /\ connections' = m2
            /\ th' = [th EXCEPT ![t].pc = "done"]
       ELSE /\ connections' = connections
            /\ th' = [th EXCEPT ![t].pc = "done", ![t].snap.m = m2]
    /\ written' = {}
    /\ UNCHANGED <<now, recs, trackers, lastFingerprint, pool, storeLog, ops, clientHeaders>>

\* delete(snapshot, a)
SnapshotDelete(t, a) ==
    /\ th[t].pc = "mutate"
    /\ ChangeThrough(t, MapDelete(MapThrough(th[t].snap, connections), a))

\* snapshot[a] = p
SnapshotSet(t, a, p) ==
    /\ th[t].pc = "mutate"
    /\ ChangeThrough(t, MapSet(MapThrough(th[t].snap, connections), a, p))

Next ==
    \E t \in Threads :
        \/ \E c \in Clients, a \in Addrs : StartRequest(t, c, a)
        \/ \E c \in Clients, e \in RejectErrors : RejectRequest(t, c, e)
        \/ DoReuse(t)
        \/ DoDial(t)
        \/ \E a \in Addrs, hook \in {"ok", "err"} : StartDial(t, a, hook)
        \/ \E e \in DialErrors : HandshakeFail(t, e)
        \/ Verify(t)
        \/ \E e \in LateErrors : HandshakeLateFail(t, e)
        \/ UpdateDetails(t)
        \/ Store(t)
        \/ ResponseOK(t)
        \/ ResponseFail(t)
        \/ SnapshotAndSelect(t)
        \/ WriteSettings(t)
        \/ WriteFrames(t)
        \/ WriteWindow(t)
        \/ WritePriority(t)
        \/ Generate(t)
        \/ Respond(t)
        \/ StartSnapshot(t)
        \/ \E a \in Addrs : SnapshotDelete(t, a)
        \/ \E a \in Addrs, p \in 1..Len(recs) : SnapshotSet(t, a, p)

Spec == Init /\ [][Next]_vars

----------------------------------------------------------------------------
(* C1 *)

Ptrs == 1..Len(recs)

SetMax(S) == CHOOSE x \in S : \A y \in S : y <= x

IsPrefix(s, u) == Len(s) <= Len(u) /\ \A i \in 1..Len(s) : s[i] = u[i]

\* C1: the record a request assembles from is the entry of its registry
\* snapshot with the greatest ConnectedAt over all addresses (nil exactly
\* when the snapshot is empty), whichever client dialed it and whatever
\* address the request itself went to.
C1_AssemblyPicksLatestOfAllAddresses ==
    \A t \in Threads :
        th[t].op = "request" =>
            LET m == th[t].snap.m
            IN  /\ (DOMAIN m = {}) => th[t].sel = 0
                /\ (DOMAIN m # {}) =>
                      /\ th[t].sel \in {m[a] : a \in DOMAIN m}
                      /\ \A a \in DOMAIN m :
                            recs[th[t].sel].ConnectedAt
                                >= recs[m[a]].ConnectedAt
                /\ th[t].mine # Nil =>
                      /\ th[t].mine[1].from = th[t].sel
                      /\ th[t].mine[1].profile = th[t].client

\* client A's response carries a record A assembled from the record of
\* client B's dial to another address, while B's request is still running
C1_Witness ==
    \E tA \in Threads, tB \in Threads :
        /\ tA # tB
        /\ th[tA].op = "request" /\ th[tB].op = "request"
        /\ th[tA].client # th[tB].client
        /\ th[tA].addr # th[tB].addr
        /\ th[tA].pc = "done" /\ th[tA].resp # Nil
        /\ th[tB].pc \notin {"idle", "done"}
        /\ th[tA].details # 0
        /\ connections[th[tA].addr] = th[tA].details
        /\ th[tA].resp[1].by = tA
        /\ th[tA].resp[1].from = th[tB].details
        /\ FingerprintOf(th[tA].resp[1]).TLSVersion =
               FormatUint(Negotiated(th[tB].addr).Version)
        /\ FingerprintOf(th[tA].resp[1]).TLSVersion #
               FormatUint(Negotiated(th[tA].addr).Version)

----------------------------------------------------------------------------
(* C2, C3 *)

StoredAddrs == {storeLog[i].addr : i \in 1..Len(storeLog)}

StoresTo(a) == {i \in 1..Len(storeLog) : storeLog[i].addr = a}

\* C2: when the successful dials so far went to pairwise distinct
\* addresses, GetAllConnections returns exactly one entry per dial, the
\* dial's own record, with HandshakeComplete = true.
C2_DistinctDialsAllStored ==
    LET all == MapThrough(GetAllConnections(connections), connections)
    IN  Cardinality(StoredAddrs) = Len(storeLog) =>
            /\ Cardinality(DOMAIN all) = Len(storeLog)
            /\ \A i \in 1..Len(storeLog) :
                  /\ storeLog[i].addr \in DOMAIN all
                  /\ all[storeLog[i].addr] = storeLog[i].details
                  /\ recs[storeLog[i].details].HandshakeComplete

\* two dials to different addresses ran interleaved (the one that began
\* later stored first) and both are in the registry
C2_Witness ==
    /\ Len(storeLog) = 2
    /\ storeLog[1].addr # storeLog[2].addr
    /\ storeLog[1].details = 2 /\ storeLog[2].details = 1
    /\ Cardinality(DOMAIN connections) = 2

\* C3: the registry maps an address to the record of the last store for
\* that address, and to nothing when no dial to it has stored.
C3_LastWriterWins ==
    \A a \in Addrs :
        IF StoresTo(a) = {}
        THEN ~GetConnection(connections, a).exists
        ELSE /\ GetConnection(connections, a).exists
             /\ GetConnection(connections, a).details =
                    storeLog[SetMax(StoresTo(a))].details

\* two dials to one address: the one that began later stored first, and
\* the registry holds the record of the one that stored last
C3_Witness ==
    /\ Len(storeLog) = 2
    /\ storeLog[1].addr = storeLog[2].addr
    /\ storeLog[1].details = 2 /\ storeLog[2].details = 1
    /\ connections[storeLog[1].addr] = 1

----------------------------------------------------------------------------
(* C4, C5 *)

DialFails(t) ==
    /\ th[t].pc \in {"handshake", "finish"}
    /\ th'[t].tlsErr # ""

\* C4: the step in which a dial fails returns tls.Dial's error as it is
\* and changes neither the registry nor the history of stores.
C4_FailedDialStoresNothing ==
    [][\A t \in Threads :
          DialFails(t) =>
              /\ th'[t].dialRet = th'[t].tlsErr
              /\ connections' = connections
              /\ storeLog' = storeLog]_vars

\* a dial failed after the hook had filled its record, at an address for
\* which the registry holds an earlier dial's record, which is still there
C4_Witness ==
    \E t \in Threads :
        /\ th[t].pc = "done" /\ th[t].tlsErr # ""
        /\ th[t].dialRet = th[t].tlsErr
        /\ recs[th[t].details].HandshakeComplete
        /\ th[t].addr \in DOMAIN connections
        /\ connections[th[t].addr] # th[t].details

Succeeded(t) ==
    \/ th[t].pc \in {"finish", "store", "await", "snap"}
    \/ th[t].pc = "done" /\ th[t].op = "dial" /\ th[t].tlsErr = ""

\* C5: with a caller's hook in the configuration, the hook is called once
\* each time the installed hook runs, never more than once in a dial and
\* only after the details were captured; a dial gets past verification
\* only if the caller's hook returned nil, and a hook error is the error
\* of the dial.
C5_CallerHookGoverns ==
    \A t \in Threads :
        th[t].hook # "none" =>
            /\ th[t].hookCalls = th[t].verifyCalls
            /\ th[t].hookCalls <= 1
            /\ th[t].hookCalls = 1 => th[t].sawCaptured
            /\ Succeeded(t) => th[t].hookCalls = 1 /\ th[t].hook = "ok"
            /\ (th[t].hook = "err" /\ th[t].hookCalls = 1) =>
                  /\ th[t].pc = "done"
                  /\ th[t].tlsErr = HookError
                  /\ th[t].dialRet = HookError

\* one dial whose hook accepted and which is stored, one whose hook
\* rejected after the capture and which failed with the hook's error
C5_Witness ==
    \E t1 \in Threads, t2 \in Threads :
        /\ th[t1].hook = "ok" /\ th[t1].pc = "done" /\ th[t1].tlsErr = ""
        /\ th[t1].hookCalls = 1
        /\ connections[th[t1].addr] = th[t1].details
        /\ th[t2].hook = "err" /\ th[t2].pc = "done"
        /\ th[t2].hookCalls = 1
        /\ th[t2].dialRet = HookError
        /\ recs[th[t2].details].HandshakeComplete

----------------------------------------------------------------------------
(* C6, C7 *)

\* the steps that write through a map GetAllConnections returned: the
\* caller's own change of the map, and updateFingerprint's four field
\* writes into the record it selected from it
ChangesThroughSnapshot(t) ==
    /\ th[t].pc \in {"mutate", "wrS", "wrF", "wrW", "wrP"}
    /\ th'[t].pc # th[t].pc

C7_NoWriteAfterHandshakeComplete ==
    [][\A p \in Ptrs :
          recs[p].HandshakeComplete =>
              \A w \in written' : w[1] = p => w[2] \in HTTP2Fields]_vars

\* C7 (amended): no step changes the value of a field other than the four
\* HTTP/2 fields of a record whose HandshakeComplete is true;
\* updateConnectionDetails writes TLSVersion, CipherSuite,
\* HandshakeComplete and PeerCertificates again, with the values the hook
\* captured.
C7_NoChangeAfterHandshakeComplete ==
    [][\A p \in Ptrs :
          recs[p].HandshakeComplete =>
              \A f \in TLSFields : recs'[p][f] = recs[p][f]]_vars

\* updateConnectionDetails has just written again the fields of a record
\* the hook had completed
C7_Witness ==
    \E t \in Threads :
        /\ th[t].pc = "store"
        /\ recs[th[t].details].HandshakeComplete
        /\ th[t].verifyCalls = 1
        /\ <<th[t].details, "TLSVersion">> \in written
        /\ <<th[t].details, "HandshakeComplete">> \in written
        /\ recs[th[t].details].TLSVersion = Negotiated(th[t].addr).Version

----------------------------------------------------------------------------
(* C8, C9 *)

\* C8: the HTTP/2 part of the record a request of client A assembled is
\* that of A's own tracker: its settings, its window size, frames it has
\* tracked, and the Akamai fingerprint of its settings, window and priority.
C8_HTTP2PartIsOwnTrackers ==
    \A t \in Threads :
        (th[t].mine # Nil /\ th[t].mine[1].d # Nil) =>
            LET fp  == FingerprintOf(th[t].mine[1])
                trk == trackers[th[t].client]
            IN  /\ fp.HTTP2 # Nil
                /\ fp.HTTP2[1].Settings = GetSettings(trk)
                /\ fp.HTTP2[1].WindowUpdate = GetWindowSize(trk)
                /\ fp.HTTP2[1].HeaderPriority = GetPriority(trk)
                /\ IsPrefix(fp.HTTP2[1].SentFrames, GetFrames(trk))
                /\ fp.AkamaiFP =
                       generateAkamaiFingerprint(GetSettings(trk),
                                                 GetWindowSize(trk),
                                                 GetPriority(trk))

Location(kind, ptr, owner, field) ==
    [kind |-> kind, ptr |-> ptr, owner |-> owner, field |-> field]

\* an access to a location; guarded: made holding the mutex of the object
\* the location belongs to
Access(loc, write, guarded) ==
    [loc |-> loc, write |-> write, guarded |-> guarded]

RecordField(p, f) == Location("ConnectionDetails", p, "", f)

TrackerField(c, f) == Location("HTTP2Tracker", 0, c, f)

\* the fields of details GenerateFingerprintData reads
GenerateReads ==
    {"TLSVersion", "ClientRandom", "SessionID", "ALPNProtocols",
     "SignatureAlgorithms", "HTTP2Settings", "HTTP2WindowUpdate",
     "HTTP2Priority", "HTTP2Frames"}

\* the accesses to shared state of the statement thread t is at
Accesses(t) ==
    LET c == th[t].client
        registry == Location("TLSTracker", 0, "", "connections")
        last == Location("Client", 0, c, "lastFingerprint")
        assign(tf, rf) ==
            {Access(TrackerField(c, tf), FALSE, TRUE),
             Access(RecordField(th[t].sel, rf), TRUE, FALSE)}
    IN  CASE th[t].pc = "handshake" ->
                 {Access(RecordField(th[t].details, f), TRUE, FALSE) :
                     f \in CaptureWrites(ConnectionState(th[t].addr, FALSE))}
          [] th[t].pc = "finish" ->
                 {Access(RecordField(th[t].details, f), TRUE, FALSE) :
                     f \in CaptureWrites(th[t].cs)}
          [] th[t].pc = "store" -> {Access(registry, TRUE, TRUE)}
          [] th[t].pc = "snap" ->
                 {Access(registry, FALSE, TRUE)}
                     \cup {Access(RecordField(connections[a], "ConnectedAt"),
                                  FALSE, FALSE) : a \in DOMAIN connections}
          [] th[t].pc = "wrS" -> assign("settings", "HTTP2Settings")
          [] th[t].pc = "wrF" -> assign("frames", "HTTP2Frames")
          [] th[t].pc = "wrW" -> assign("windowSize", "HTTP2WindowUpdate")
          [] th[t].pc = "wrP" -> assign("priority", "HTTP2Priority")
          [] th[t].pc = "gen" ->
                 {Access(last, TRUE, FALSE)}
                     \cup (IF th[t].sel = 0 THEN {}
                           ELSE {Access(RecordField(th[t].sel, f),
                                        FALSE, FALSE) : f \in GenerateReads})
          [] th[t].pc = "ret" -> {Access(last, FALSE, FALSE)}
          [] OTHER -> {}

Conflict(a1, a2) ==
    /\ a1.loc = a2.loc
    /\ a1.write \/ a2.write
    /\ ~(a1.guarded /\ a2.guarded)

\* C9: no state has two threads at statements that access the same field
\* of shared state, one of them writing, unless both hold the mutex that
\* guards it.
C9_RaceFree ==
    \A t1 \in Threads, t2 \in Threads :
        t1 # t2 =>
            \A a1 \in Accesses(t1), a2 \in Accesses(t2) : ~Conflict(a1, a2)

----------------------------------------------------------------------------
(* C15 *)

\* the step in which thread t's request on client c reaches the send step
Sends(t, c) ==
    /\ th[t].pc \in {"idle", "done"}
    /\ th'[t].op = "request" /\ th'[t].pc = "do"
    /\ th'[t].client = c

\* C15: a client's tracker starts with the two preset frames; the step in
\* which a request reaches the send step appends one HEADERS frame with
\* stream id 1 to its client's tracker, before the transport call, and no
\* other step (a rejected request, a transport failure, a response)
\* changes the frames; so the tracker holds 2 + n frames after n sent
\* requests.
C15_OneHeadersFramePerSentRequest ==
    /\ \A c \in Clients : Len(GetFrames(trackers[c])) = 2
    /\ [][\A c \in Clients :
             LET old == GetFrames(trackers[c])
                 new == GetFrames(trackers'[c])
             IN  IF \E t \in Threads : Sends(t, c)
                 THEN /\ Len(new) = Len(old) + 1
                      /\ IsPrefix(old, new)
                      /\ new[Len(new)].Type = "HEADERS"
                      /\ new[Len(new)].StreamID = 1
                 ELSE new = old]_vars

\* one request on a client was sent and its transport failed, another on
\* the same client was rejected before the send step: 2 + 1 frames
C15_Witness ==
    \E t \in Threads, u \in Threads :
        /\ th[t].op = "request" /\ th[t].pc = "done"
        /\ th[t].err = "request failed"
        /\ th[u].op = "request" /\ th[u].pc = "done"
        /\ th[u].err \in RejectErrors
        /\ th[u].client = th[t].client
        /\ ops = 2
        /\ Len(GetFrames(trackers[th[t].client])) = 3
        /\ GetFrames(trackers[th[t].client])[3] = HeadersFrame

----------------------------------------------------------------------------
(* The tracker on its own: any frames, tracked on a new tracker *)

TrackedClient == "Chrome120"

SettingsInputs ==
    { Nil, Some(EmptyMap),
      Some([HEADER_TABLE_SIZE |-> 1]), Some([HEADER_TABLE_SIZE |-> 2]),
      Some([ENABLE_PUSH |-> 0]),
      Some([HEADER_TABLE_SIZE |-> 2, ENABLE_PUSH |-> 1]) }

FrameInputs ==
    { Frame("SETTINGS", 0, 0, <<>>, <<>>, st) : st \in SettingsInputs }
    \cup { Frame("WINDOW_UPDATE", 0, n, <<>>, <<>>, Nil) : n \in {0, 5, 7} }
    \cup { Frame("WINDOW_UPDATE", 0, 9, <<>>, <<>>,
                 Some([HEADER_TABLE_SIZE |-> 9])) }
    \cup { Frame("HEADERS", 1, 40, fl, <<>>, st) :
              fl \in { <<>>, <<"Priority">>, <<"EndStream", "EndHeaders">>,
                       <<"EndHeaders", "Priority">> },
              st \in { Nil, Some(EmptyMap) } }
    \cup { Frame("HEADERS", 1, 40, <<"EndHeaders">>, <<>>,
                 Some([ENABLE_PUSH |-> 7])) }
    \cup { Frame("PING", 0, 8, <<"Priority">>, <<>>,
                 Some([HEADER_TABLE_SIZE |-> 3])) }

InitTracker ==
    /\ now = 1
    /\ recs = <<>>
    /\ connections = NewTLSTracker
    /\ trackers = [c \in Clients |-> NewHTTP2Tracker]
    /\ lastFingerprint =
           [c \in Clients |-> Assembled(c, Deref(recs, 0), 0, 0)]
    /\ pool = [c \in Clients |-> {}]
    /\ th = [t \in Threads |-> IdleThread]
    /\ storeLog = <<>>
    /\ written = {}
    /\ ops = 0
    /\ clientHeaders = [c \in Clients |-> NewOrderedHeaders]

\* t.TrackFrame(frame)
Track(c, frame) ==
    /\ Len(trackers[c].frames) < MaxFrames
    /\ trackers' = [trackers EXCEPT ![c] = TrackFrame(@, frame)]
    /\ ops' = ops + 1
    /\ UNCHANGED <<now, recs, connections, lastFingerprint, pool, th,
                   storeLog, written, clientHeaders>>

NextTracker == \E frame \in FrameInputs : Track(TrackedClient, frame)

SpecTracker == InitTracker /\ [][NextTracker]_vars

----------------------------------------------------------------------------
(* C10 *)

IsSettingsFrameWith(frame, k) ==
    /\ frame.Type = "SETTINGS"
    /\ frame.Settings # Nil
    /\ k \in DOMAIN frame.Settings[1]

SettingsFramesWith(frames, k) ==
    {i \in 1..Len(frames) : IsSettingsFrameWith(frames[i], k)}

KeysSeen(frames) ==
    UNION {DOMAIN frames[i].Settings[1] :
              i \in {j \in 1..Len(frames) : frames[j].Settings # Nil}}

\* C10: the aggregate settings map of every tracker is the per-key merge of
\* the SETTINGS frames in its frame sequence: a key is present exactly when
\* some tracked SETTINGS frame carries it, its value is the one of the last
\* such frame, and frames of other types contribute nothing even when they
\* carry a settings map.
C10_SettingsArePerKeyMerge ==
    \A c \in Clients :
        LET t == trackers[c]
        IN  /\ DOMAIN t.settings =
                   {k \in KeysSeen(t.frames) :
                       SettingsFramesWith(t.frames, k) # {}}
            /\ \A k \in DOMAIN t.settings :
                   t.settings[k] =
                       t.frames[SetMax(SettingsFramesWith(t.frames, k))]
                           .Settings[1][k]

\* a later partial SETTINGS frame overrode one key and kept the other, and a
\* frame of another type with a settings map was tracked after it
C10_Witness ==
    LET t == trackers[TrackedClient]
    IN  /\ Len(t.frames) = 3
        /\ t.frames[1].Settings =
               Some([HEADER_TABLE_SIZE |-> 2, ENABLE_PUSH |-> 1])
        /\ t.frames[2].Type = "SETTINGS"
        /\ t.frames[2].Settings = Some([HEADER_TABLE_SIZE |-> 1])
        /\ t.frames[3].Type = "WINDOW_UPDATE"
        /\ t.frames[3].Settings # Nil
        /\ t.settings = [HEADER_TABLE_SIZE |-> 1, ENABLE_PUSH |-> 1]

----------------------------------------------------------------------------
(* C11, C12, C13 *)

WindowUpdates(frames) ==
    {i \in 1..Len(frames) : frames[i].Type = "WINDOW_UPDATE"}

PositiveWindowUpdates(frames) ==
    {i \in WindowUpdates(frames) : frames[i].Length > 0}

\* C11 (as stated): once a WINDOW_UPDATE frame has been tracked,
\* GetWindowSize is the length of the last WINDOW_UPDATE frame tracked,
\* whatever that length is, 0 included.
C11_WindowIsLastWindowUpdate ==
    \A c \in Clients :
        LET t == trackers[c]
        IN  WindowUpdates(GetFrames(t)) # {} =>
                GetWindowSize(t) =
                    GetFrames(t)[SetMax(WindowUpdates(GetFrames(t)))].Length

\* C11 (amended): GetWindowSize is the length of the last WINDOW_UPDATE
\* frame tracked whose length is greater than 0, and 0 when there is none;
\* a WINDOW_UPDATE frame of length 0 leaves the window as it was.
C11_WindowIsLastPositiveWindowUpdate ==
    \A c \in Clients :
        LET t == trackers[c]
            pos == PositiveWindowUpdates(GetFrames(t))
        IN  GetWindowSize(t) =
                IF pos = {} THEN 0 ELSE GetFrames(t)[SetMax(pos)].Length

\* a WINDOW_UPDATE of length 0 was tracked after one of length 5, and the
\* window is still 5
C11_Witness ==
    LET t == trackers[TrackedClient]
    IN  /\ Len(t.frames) >= 2
        /\ t.frames[1].Type = "WINDOW_UPDATE" /\ t.frames[1].Length = 5
        /\ t.frames[2].Type = "WINDOW_UPDATE" /\ t.frames[2].Length = 0
        /\ GetWindowSize(t) = 5

PriorityHeaders(frames) ==
    {i \in 1..Len(frames) :
        /\ frames[i].Type = "HEADERS"
        /\ SeqContains(frames[i].Flags, "Priority")}

\* C12: the aggregate priority is the fixed HeaderPriority (dependency 0,
\* not exclusive, weight 16) exactly when a HEADERS frame with the
\* Priority flag has been tracked, with or without a settings map, and nil
\* otherwise.
C12_PriorityFromFlagAlone ==
    \A c \in Clients :
        LET t == trackers[c]
        IN  GetPriority(t) =
                IF PriorityHeaders(GetFrames(t)) # {}
                THEN Some(FixedPriority) ELSE Nil

\* C13: every step appends to the frame sequence: the frames GetFrames
\* returned before the step are a prefix of what it returns after it, and
\* the length is the number of TrackFrame calls made so far.
C13_FramesAppendOnly ==
    [][LET old == GetFrames(trackers[TrackedClient])
           new == GetFrames(trackers'[TrackedClient])
       IN  /\ IsPrefix(old, new)
           /\ Len(old) = ops
           /\ Len(new) = ops']_vars

\* three different frames were tracked and GetFrames gives them in the
\* order of the calls
C13_Witness ==
    LET t == trackers[TrackedClient]
    IN  /\ ops = 3
        /\ Len(GetFrames(t)) = 3
        /\ GetFrames(t)[1].Type = "SETTINGS"
        /\ GetFrames(t)[2].Type = "WINDOW_UPDATE"
        /\ GetFrames(t)[3].Type = "HEADERS"

----------------------------------------------------------------------------
(* Construction of the package-level clients *)

\* the names init() passes to New
ProfileNames ==
    {"Chrome120", "Chrome131", "Chrome138", "Firefox121", "Firefox131",
     "Safari17", "Safari18", "SafariiOS", "Edge120", "MullvadBrowser",
     "ChromeAndroid", "Opera115", "Brave131", "Brave138"}

\* the browser family of a profile
Family(name) ==
    CASE name \in {"Firefox121", "Firefox131", "MullvadBrowser"} -> "firefox"
      [] name \in {"Safari17", "Safari18", "SafariiOS"} -> "safari"
      [] OTHER -> "chromium"

InitNew ==
    /\ now = 1
    /\ recs = <<>>
    /\ connections = NewTLSTracker
    /\ trackers = EmptyMap
    /\ lastFingerprint = EmptyMap
    /\ pool = EmptyMap
    /\ th = [t \in Threads |-> IdleThread]
    /\ storeLog = <<>>
    /\ written = {}
    /\ ops = 0
    /\ clientHeaders = [c \in Clients |-> NewOrderedHeaders]

\* New(name): the tracker seeded with the preset frames, then
\* updateFingerprint on a registry without entries
NewClient(name) ==
    /\ name \notin DOMAIN trackers
    /\ trackers' = MapSet(trackers, name, NewClientTracker(name))
    /\ lastFingerprint' =
           MapSet(lastFingerprint, name,
                  Assembled(name,
                            Deref(recs, SelectLatest(recs, EmptyMap,
                                                     <<>>, "none")),
                            0, 0))
    /\ pool' = MapSet(pool, name, {})
    /\ UNCHANGED <<now, recs, connections, th, storeLog, written, ops, clientHeaders>>

NextNew == \E name \in ProfileNames : NewClient(name)

SpecNew == InitNew /\ [][NextNew]_vars

----------------------------------------------------------------------------
(* C14 *)

FamilyPreset(name) ==
    CASE Family(name) = "firefox" -> CreateDefaultFirefoxFrames
      [] Family(name) = "safari" -> CreateDefaultSafariFrames
      [] OTHER -> CreateDefaultChromeFrames

\* C14: the tracker of every constructed client holds exactly two frames,
\* a SETTINGS frame then a WINDOW_UPDATE frame, those of the preset of the
\* profile's browser family; a name that is no profile gets the
\* Chromium-like preset.
C14_SeededByFamily ==
    /\ \A c \in DOMAIN trackers :
          LET frames == GetFrames(trackers[c])
          IN  /\ Len(frames) = 2
              /\ frames[1].Type = "SETTINGS"
              /\ frames[2].Type = "WINDOW_UPDATE"
              /\ frames = FamilyPreset(c)
    /\ CreateHTTP2FrameForProfile("NoSuchProfile") = CreateDefaultChromeFrames

----------------------------------------------------------------------------
(* The tracker's getters and what their results share with the tracker *)

\* What a getter hands out: copy is the value seen through the result;
\* shared says that the result is the tracker's own object, membersShared
\* that the slices and maps inside its elements are the tracker's own.

\* GetFrames: a new slice, the Frame structs copied into it; a Frame's
\* Flags, Headers and Settings are references and are copied as such
GetFramesResult(t) ==
    [kind |-> "frames", copy |-> GetFrames(t), shared |-> FALSE,
     membersShared |-> TRUE]

\* GetSettings: a new map with every key copied
GetSettingsResult(t) ==
    [kind |-> "settings", copy |-> GetSettings(t), shared |-> FALSE,
     membersShared |-> FALSE]

\* GetPriority: return t.priority, the pointer itself
GetPriorityResult(t) ==
    [kind |-> "priority", copy |-> GetPriority(t),
     shared |-> GetPriority(t) # Nil, membersShared |-> FALSE]

GetterResult(t, kind) ==
    CASE kind = "frames" -> GetFramesResult(t)
      [] kind = "settings" -> GetSettingsResult(t)
      [] OTHER -> GetPriorityResult(t)

\* a HEADERS frame with the Priority flag that TrackFrame takes a priority
\* from
PriorityFrame ==
    Frame("HEADERS", 1, 40, <<"EndHeaders", "Priority">>, <<>>,
          Some(EmptyMap))

\* what the caller has tracked on a client's tracker after construction
TrackedBefore == { <<>>, <<PriorityFrame>>, <<HeadersFrame>> }

InitGetters ==
    /\ now = 1
    /\ recs = <<>>
    /\ connections = NewTLSTracker
    /\ \E f \in [Clients -> TrackedBefore] :
          trackers = [c \in Clients |-> TrackAll(NewClientTracker(c), f[c])]
    /\ lastFingerprint =
           [c \in Clients |-> Assembled(c, Deref(recs, 0), 0, 0)]
    /\ pool = [c \in Clients |-> {}]
    /\ th = [t \in Threads |-> IdleThread]
    /\ storeLog = <<>>
    /\ written = {}
    /\ ops = 0
    /\ clientHeaders = [c \in Clients |-> NewOrderedHeaders]

\* a caller calls one of the getters of client c's tracker
CallGetter(t, c, kind) ==
    /\ Begin(t)
    /\ th' = [th EXCEPT ![t] =
                 [IdleThread EXCEPT !.op = "getter", !.pc = "got",
                                    !.client = c,
                                    !.snap = GetterResult(trackers[c], kind)]]
    /\ UNCHANGED <<now, recs, connections, trackers, lastFingerprint, pool,
                   storeLog, written, clientHeaders>>

\* the caller is done with the result; tracker2 is the tracker after the
\* caller's write
Written(t, copy2, tracker2) ==
    /\ th' = [th EXCEPT ![t].pc = "done", ![t].snap.copy = copy2]
    /\ trackers' = [trackers EXCEPT ![th[t].client] = tracker2]
    /\ UNCHANGED <<now, recs, connections, lastFingerprint, pool, storeLog,
                   written, ops, clientHeaders>>

\* frames[i] = frame
SetElement(t, i, frame) ==
    /\ th[t].pc = "got" /\ th[t].snap.kind = "frames"
    /\ i \in 1..Len(th[t].snap.copy)
    /\ LET trk == trackers[th[t].client]
       IN  Written(t, [th[t].snap.copy EXCEPT ![i] = frame],
                   IF th[t].snap.shared
                   THEN [trk EXCEPT !.frames[i] = frame] ELSE trk)

\* frames[i].Settings[k] = v
WriteFrameSettings(t, i, k, v) ==
    /\ th[t].pc = "got" /\ th[t].snap.kind = "frames"
    /\ i \in 1..Len(th[t].snap.copy)
    /\ th[t].snap.copy[i].Settings # Nil
    /\ LET trk == trackers[th[t].client]
           m2  == Some(MapSet(th[t].snap.copy[i].Settings[1], k, v))
       IN  Written(t, [th[t].snap.copy EXCEPT ![i].Settings = m2],
                   IF th[t].snap.shared \/ th[t].snap.membersShared
                   THEN [trk EXCEPT !.frames[i].Settings = m2] ELSE trk)

\* frames[i].Flags[j] = flag
WriteFrameFlag(t, i, j, flag) ==
    /\ th[t].pc = "got" /\ th[t].snap.kind = "frames"
    /\ i \in 1..Len(th[t].snap.copy)
    /\ j \in 1..Len(th[t].snap.copy[i].Flags)
    /\ LET trk == trackers[th[t].client]
       IN  Written(t, [th[t].snap.copy EXCEPT ![i].Flags[j] = flag],
                   IF th[t].snap.shared \/ th[t].snap.membersShared
                   THEN [trk EXCEPT !.frames[i].Flags[j] = flag] ELSE trk)

\* settings[k] = v
WriteSettingsKey(t, k, v) ==
    /\ th[t].pc = "got" /\ th[t].snap.kind = "settings"
    /\ LET trk == trackers[th[t].client]
           m2  == MapSet(th[t].snap.copy, k, v)
       IN  Written(t, m2,
                   IF th[t].snap.shared
                   THEN [trk EXCEPT !.settings = m2] ELSE trk)

\* priority.Weight = w
WritePriorityWeight(t, w) ==
    /\ th[t].pc = "got" /\ th[t].snap.kind = "priority"
    /\ th[t].snap.copy # Nil
    /\ LET trk == trackers[th[t].client]
           p2  == Some([th[t].snap.copy[1] EXCEPT !.Weight = w])
       IN  Written(t, p2,
                   IF th[t].snap.shared
                   THEN [trk EXCEPT !.priority = p2] ELSE trk)

NextGetters ==
    \E t \in Threads :
        \/ \E c \in Clients, kind \in {"frames", "settings", "priority"} :
              CallGetter(t, c, kind)
        \/ \E i \in 1..MaxFrames : SetElement(t, i, HeadersFrame)
        \/ \E i \in 1..MaxFrames : WriteFrameSettings(t, i, "ENABLE_PUSH", 7)
        \/ \E i \in 1..MaxFrames, j \in 1..2 :
              WriteFrameFlag(t, i, j, "Priority")
        \/ WriteSettingsKey(t, "ENABLE_PUSH", 7)
        \/ WritePriorityWeight(t, 255)

SpecGetters == InitGetters /\ [][NextGetters]_vars

----------------------------------------------------------------------------
(* C16 *)

\* the step in which a caller writes through the result of a getter
WritesThroughResult(t) == th[t].pc = "got" /\ th'[t].pc = "done"

\* C16: a write through a value a getter returned (an element of the frame
\* slice, a frame's settings map or flags, the settings map, the priority)
\* changes nothing a later getter call on the tracker returns.
C16_GettersReturnCopies ==
    [][\A t \in Threads :
          WritesThroughResult(t) =>
              \A c \in Clients :
                  /\ GetFrames(trackers'[c]) = GetFrames(trackers[c])
                  /\ GetSettings(trackers'[c]) = GetSettings(trackers[c])
                  /\ GetWindowSize(trackers'[c]) = GetWindowSize(trackers[c])
                  /\ GetPriority(trackers'[c]) = GetPriority(trackers[c])]_vars

----------------------------------------------------------------------------
(* The assembler on its own: GenerateFingerprintData on any profile and *)
(* any details                                                          *)

AssembleProfiles == Clients \cup MalformedProfiles

\* the records details may point to
DetailsInputs ==
    { [NewDetails(1, "") EXCEPT !.TLSVersion = v, !.HandshakeComplete = TRUE,
                                !.ClientRandom = <<1, 255>>,
                                !.HTTP2Settings = st,
                                !.HTTP2WindowUpdate = w] :
        v \in {771, 772},
        st \in { Nil, Some(EmptyMap), Some([ENABLE_PUSH |-> 1]),
                 Some([HEADER_TABLE_SIZE |-> 4096,
                       MAX_FRAME_SIZE |-> 16384]) },
        w \in {0, 5} }

InitAssemble ==
    /\ now = 1
    /\ \E d1 \in DetailsInputs, d2 \in DetailsInputs : recs = <<d1, d2>>
    /\ connections = NewTLSTracker
    /\ trackers = [c \in Clients |-> NewClientTracker(c)]
    /\ lastFingerprint =
           [c \in Clients |-> Assembled(c, Deref(<<>>, 0), 0, 0)]
    /\ pool = [c \in Clients |-> {}]
    /\ th = [t \in Threads |-> IdleThread]
    /\ storeLog = <<>>
    /\ written = {}
    /\ ops = 0
    /\ clientHeaders = [c \in Clients |-> NewOrderedHeaders]

\* thread t calls GenerateFingerprintData(profile, details); details is
\* the pointer p, nil when p is 0
Assemble(t, name, p) ==
    /\ th' = [th EXCEPT ![t] =
                 [IdleThread EXCEPT
                     !.op = "assemble", !.pc = "done", !.client = name,
                     !.sel = p,
                     !.mine = Some(Assembled(name, Deref(recs, p), p, t))]]
    /\ UNCHANGED <<now, recs, connections, trackers, lastFingerprint, pool,
                   storeLog, written, ops, clientHeaders>>

NextAssemble ==
    \E t \in Threads, name \in AssembleProfiles, p \in 0..Len(recs) :
        Assemble(t, name, p)

SpecAssemble == InitAssemble /\ [][NextAssemble]_vars

----------------------------------------------------------------------------
(* C17, C18, C19, C20 *)

\* the hex encoding of 32 zero bytes
ZeroPlaceholder == [i \in 1..64 |-> "0"]

\* C17: assembled without details, the record has the profile's template
\* as JA3 and the hash of that string as JA3Hash, the hex encoding of 32
\* zero bytes as both ClientRandom and SessionID, empty JA4, JA4_R,
\* PeetPrint, Akamai and version fields, and no HTTP/2 sub-record.
C17_FallbackRecord ==
    \A t \in Threads :
        (th[t].mine # Nil /\ th[t].mine[1].d = Nil) =>
            LET fp == FingerprintOf(th[t].mine[1])
                template == Profile(th[t].client).JA3
            IN  /\ fp.JA3 = template
                /\ fp.JA3Hash = GenerateJA3Hash(template)
                /\ fp.ClientRandom = ZeroPlaceholder
                /\ fp.SessionID = ZeroPlaceholder
                /\ fp.JA4 = <<>> /\ fp.JA4_R = <<>>
                /\ fp.PeetPrint = <<>> /\ fp.PeetPrintHash = <<>>
                /\ fp.AkamaiFP = <<>> /\ fp.AkamaiFPHash = <<>>
                /\ fp.TLSVersion = <<>> /\ fp.TLSVersionRecord = <<>>
                /\ fp.TLSVersionNegotiated = <<>>
                /\ fp.HTTP2 = Nil

\* both threads assembled without details for the profile whose template
\* is 771,4865-4866,0-23,29-23,0
C17_Witness ==
    \A t \in Threads :
        /\ th[t].mine # Nil /\ th[t].mine[1].d = Nil
        /\ th[t].client = "Firefox121"
        /\ FingerprintOf(th[t].mine[1]).JA3 = FirefoxJA3
        /\ Len(FingerprintOf(th[t].mine[1]).ClientRandom) = 64

FingerprintFields ==
    {"TLSVersion", "TLSVersionRecord", "TLSVersionNegotiated", "JA3",
     "JA3Hash", "JA4", "JA4_R", "PeetPrint", "PeetPrintHash",
     "ClientRandom", "SessionID", "HTTP2", "AkamaiFP", "AkamaiFPHash"}

\* C18: every call returns a record, and for a profile whose template does
\* not parse the record is the one returned for the same profile without
\* details, whatever the details are.
C18_NeverRaisesAndDegrades ==
    \A t \in Threads :
        th[t].mine # Nil =>
            LET fp == FingerprintOf(th[t].mine[1])
            IN  /\ DOMAIN fp = FingerprintFields
                /\ th[t].client \in MalformedProfiles =>
                      fp = GenerateFingerprintData(Profile(th[t].client),
                                                   Nil)

\* a call with details that carry HTTP/2 settings and a template with a
\* field that is no number returned a record without HTTP/2 part
C18_Witness ==
    \E t \in Threads :
        /\ th[t].mine # Nil /\ th[t].mine[1].d # Nil
        /\ th[t].client = "NotANumber"
        /\ th[t].mine[1].d[1].HTTP2Settings = Some([ENABLE_PUSH |-> 1])
        /\ FingerprintOf(th[t].mine[1]).HTTP2 = Nil
        /\ FingerprintOf(th[t].mine[1]).JA3 = NotANumberJA3

\* C19: in a record assembled from details with a template that parses,
\* the HTTP/2 sub-record is there exactly when the settings map of the
\* details has a key; then AkamaiFP is the Akamai string of the settings
\* and window, AkamaiFPHash its hash and the preface the fixed literal;
\* otherwise AkamaiFP and AkamaiFPHash are empty.
C19_HTTP2IffSettings ==
    \A t \in Threads :
        (/\ th[t].mine # Nil /\ th[t].mine[1].d # Nil
         /\ th[t].client \notin MalformedProfiles) =>
            LET fp == FingerprintOf(th[t].mine[1])
                d  == th[t].mine[1].d[1]
                nonEmpty == /\ d.HTTP2Settings # Nil
                            /\ DOMAIN d.HTTP2Settings[1] # {}
            IN  /\ (fp.HTTP2 # Nil) <=> nonEmpty
                /\ nonEmpty =>
                      /\ fp.HTTP2[1].Settings = d.HTTP2Settings[1]
                      /\ fp.HTTP2[1].WindowUpdate = d.HTTP2WindowUpdate
                      /\ fp.HTTP2[1].ConnectionPreface =
                             "PRI * HTTP/2.0\r\n\r\nSM\r\n\r\n"
                      /\ fp.AkamaiFP =
                             generateAkamaiFingerprint(d.HTTP2Settings[1],
                                                       d.HTTP2WindowUpdate,
                                                       d.HTTP2Priority)
                      /\ fp.AkamaiFPHash = GenerateJA3Hash(fp.AkamaiFP)
                /\ ~nonEmpty => fp.AkamaiFP = <<>> /\ fp.AkamaiFPHash = <<>>

\* one call on details with settings {ENABLE_PUSH: 1} and window 5 gave the
\* Akamai string 2:1|5|0|m,a,p,s; the other, on details whose settings map
\* is there but empty, gave no HTTP/2 part
C19_Witness ==
    \E t \in Threads, u \in Threads :
        /\ th[t].mine # Nil /\ th[t].mine[1].d # Nil
        /\ th[t].client = "Chrome120"
        /\ th[t].mine[1].d[1].HTTP2Settings = Some([ENABLE_PUSH |-> 1])
        /\ th[t].mine[1].d[1].HTTP2WindowUpdate = 5
        /\ FingerprintOf(th[t].mine[1]).AkamaiFP =
               <<"2", ":", "1", "|", "5", "|", "0", "|", "m", ",", "a", ",",
                 "p", ",", "s">>
        /\ th[u].mine # Nil /\ th[u].mine[1].d # Nil
        /\ th[u].client = "Firefox121"
        /\ th[u].mine[1].d[1].HTTP2Settings = Some(EmptyMap)
        /\ FingerprintOf(th[u].mine[1]).HTTP2 = Nil
        /\ FingerprintOf(th[u].mine[1]).AkamaiFP = <<>>

----------------------------------------------------------------------------
(* The string functions on their own: one call at a time, on any input *)

\* a call that has returned: the function, its arguments, its result
Called(fn, args, ret) ==
    [pc |-> "done", op |-> fn, args |-> args, ret |-> ret]

\* the value each setting has in the maps below; the last key is none of
\* the six generateAkamaiFingerprint looks up
SettingValues ==
    [HEADER_TABLE_SIZE |-> 65536, ENABLE_PUSH |-> 0,
     MAX_CONCURRENT_STREAMS |-> 1000, INITIAL_WINDOW_SIZE |-> 6291456,
     MAX_FRAME_SIZE |-> 16384, MAX_HEADER_LIST_SIZE |-> 262144,
     NO_RFC7540_PRIORITIES |-> 1]

SettingsMaps ==
    { [k \in keys |-> SettingValues[k]] : keys \in SUBSET DOMAIN SettingValues }

WindowInputs == {0, 1073741824}

\* the hyphen-separated tokens of a template field: lists that parse, an
\* empty token between two hyphens, a value above 65535, a token that is
\* no number
FieldInputs ==
    { <<>>,
      << <<"7", "7", "1">> >>,
      << <<"0">>, <<"6", "5", "5", "3", "5">> >>,
      << <<"1">>, <<>>, <<"2">> >>,
      << <<"6", "5", "5", "3", "6">> >>,
      << <<"4", "x">> >> }

\* the fields of a template, each as its tokens: every choice for five
\* fields, two choices per field for one, four and six fields
FieldCounts == {1, 4, 5, 6}

TemplateInputs ==
    UNION { IF n = 5 THEN [1..n -> FieldInputs]
            ELSE [1..n -> { <<>>, << <<"7", "7", "1">> >> }] :
            n \in FieldCounts }

\* the template string of a list of fields
TemplateOf(fields) ==
    Join([i \in 1..Len(fields) |-> Join(fields[i], <<"-">>)], <<",">>)

VersionInputs == {0, 769, 770, 771, 772}

CipherValues == {4865, 255, 10}

MaxCiphers == 3

CipherInputs == UNION { [1..n -> CipherValues] : n \in 0..MaxCiphers }

ExtensionInputs == { <<>>, <<0, 23>>, <<23, 0>> }

GroupInputs == { <<>>, <<29, 23>> }

ALPNInputs ==
    { <<>>, <<"h2">>, <<"http/1.1">>, <<"http/1.1", "h2">>,
      <<"h2", "http/1.1">>, <<"spdy/3">> }

ShortLists == { <<>>, <<29>>, <<1027, 0>> }

InitFunctions ==
    /\ now = 1
    /\ recs = <<>>
    /\ connections = NewTLSTracker
    /\ trackers = [c \in Clients |-> NewClientTracker(c)]
    /\ lastFingerprint =
           [c \in Clients |-> Assembled(c, Deref(<<>>, 0), 0, 0)]
    /\ pool = [c \in Clients |-> {}]
    /\ th = [t \in Threads |-> IdleThread]
    /\ storeLog = <<>>
    /\ written = {}
    /\ ops = 0
    /\ clientHeaders = [c \in Clients |-> NewOrderedHeaders]

\* a run makes one call
NoCallYet == \A u \in Threads : th[u].pc = "idle"

\* thread t calls fn on args and gets ret
Returns(t, fn, args, ret) ==
    /\ th' = [th EXCEPT ![t] = Called(fn, args, ret)]
    /\ UNCHANGED <<now, recs, connections, trackers, lastFingerprint, pool,
                   storeLog, written, ops, clientHeaders>>

CallAkamai(t) ==
    /\ NoCallYet
    /\ \E settings \in SettingsMaps, windowUpdate \in WindowInputs,
          priority \in {Nil, Some(FixedPriority)} :
           Returns(t, "generateAkamaiFingerprint",
                   [settings |-> settings, windowUpdate |-> windowUpdate,
                    priority |-> priority],
                   generateAkamaiFingerprint(settings, windowUpdate, priority))

CallParseJA3(t) ==
    /\ NoCallYet
    /\ \E fields \in TemplateInputs :
           Returns(t, "ParseJA3", [fields |-> fields],
                   ParseJA3(TemplateOf(fields)))

CallJA4(t) ==
    /\ NoCallYet
    /\ \E v \in VersionInputs, c \in CipherInputs, e \in ExtensionInputs,
          g \in GroupInputs, a \in ALPNInputs :
           Returns(t, "GenerateJA4",
                   [tlsVersion |-> v, cipherSuites |-> c, extensions |-> e,
                    supportedGroups |-> g, alpnProtocols |-> a],
                   GenerateJA4(v, c, e, g, a))

CallJA4R(t) ==
    /\ NoCallYet
    /\ \E v \in VersionInputs, c \in CipherInputs, e \in ExtensionInputs,
          g \in GroupInputs, a \in ALPNInputs :
           Returns(t, "GenerateJA4R",
                   [tlsVersion |-> v, cipherSuites |-> c, extensions |-> e,
                    supportedGroups |-> g, alpnProtocols |-> a],
                   GenerateJA4R(v, c, e, g, a))

CallPeetPrint(t) ==
    /\ NoCallYet
    /\ \E n \in {771, 772}, r \in {769, 771}, c \in ShortLists,
          e \in ShortLists, g \in ShortLists, sa \in ShortLists :
           Returns(t, "GeneratePeetPrint",
                   [tlsVersionNegotiated |-> n, tlsVersionRecord |-> r,
                    cipherSuites |-> c, extensions |-> e,
                    supportedGroups |-> g, signatureAlgorithms |-> sa],
                   GeneratePeetPrint(n, r, c, e, g, sa))

NextFunctions ==
    \E t \in Threads :
        \/ CallAkamai(t)
        \/ CallParseJA3(t)
        \/ CallJA4(t)
        \/ CallJA4R(t)
        \/ CallPeetPrint(t)

SpecFunctions == InitFunctions /\ [][NextFunctions]_vars

----------------------------------------------------------------------------
(* C23 *)

\* the calls of fn that have returned
CallsOf(fn) == { t \in Threads : th[t].op = fn }

\* the six settings of the Akamai string, by their number
WellKnownSettings ==
    <<"HEADER_TABLE_SIZE", "ENABLE_PUSH", "MAX_CONCURRENT_STREAMS",
      "INITIAL_WINDOW_SIZE", "MAX_FRAME_SIZE", "MAX_HEADER_LIST_SIZE">>

\* C23: the Akamai string has four parts between '|': the pairs, the
\* window in decimal, 0 and m,a,p,s.  The pairs, between ';', are id:value
\* with the ids ascending, one pair for each of the six well-known settings
\* that is a key of the map and none else, the value that of the map.
C23_AkamaiListsKnownSettingsInOrder ==
    \A t \in CallsOf("generateAkamaiFingerprint") :
        LET settings == th[t].args.settings
            parts == Split(th[t].ret, "|")
            present == { i \in 1..6 : WellKnownSettings[i] \in DOMAIN settings }
            pairs == IF parts[1] = <<>> THEN <<>> ELSE Split(parts[1], ";")
            idOf(j) == CHOOSE i \in 1..6 :
                           Split(pairs[j], ":")[1] = <<Digits[i + 1]>>
        IN  /\ Len(parts) = 4
            /\ parts[2] = FormatUint(th[t].args.windowUpdate)
            /\ parts[3] = <<"0">>
            /\ parts[4] = <<"m", ",", "a", ",", "p", ",", "s">>
            /\ Len(pairs) = Cardinality(present)
            /\ Len(pairs) <= 6
            /\ \A j \in 1..Len(pairs) :
                  /\ Len(Split(pairs[j], ":")) = 2
                  /\ \E i \in present :
                        Split(pairs[j], ":")[1] = <<Digits[i + 1]>>
                  /\ Split(pairs[j], ":")[2] =
                         FormatUint(settings[WellKnownSettings[idOf(j)]])
            /\ \A j \in 1..(Len(pairs) - 1) : idOf(j) < idOf(j + 1)

\* the call on {HEADER_TABLE_SIZE: 65536, ENABLE_PUSH: 0} and window
\* 1073741824 returned 1:65536;2:0|1073741824|0|m,a,p,s
C23_Witness ==
    \E t \in CallsOf("generateAkamaiFingerprint") :
        /\ th[t].args.settings =
               [HEADER_TABLE_SIZE |-> 65536, ENABLE_PUSH |-> 0]
        /\ th[t].args.windowUpdate = 1073741824
        /\ th[t].ret =
               <<"1", ":", "6", "5", "5", "3", "6", ";", "2", ":", "0", "|",
                 "1", "0", "7", "3", "7", "4", "1", "8", "2", "4", "|", "0",
                 "|", "m", ",", "a", ",", "p", ",", "s">>

----------------------------------------------------------------------------
(* C24, C25 *)

\* the number a string of decimal digits stands for
RECURSIVE DecimalValue(_)
DecimalValue(token) ==
    IF token = <<>> THEN 0
    ELSE DecimalValue(SubSeq(token, 1, Len(token) - 1)) * 10
             + DigitValue(token[Len(token)])

\* token is a decimal number that fits 16 bits
IsUint16Decimal(token) ==
    /\ token # <<>>
    /\ \A i \in 1..Len(token) : IsDigit(token[i])
    /\ DecimalValue(token) <= MaxUint16

\* the field of these tokens is the empty string
IsEmptyField(tokens) == Join(tokens, <<"-">>) = <<>>

\* the tokens ParseJA3 has to parse in the field: none in an empty field
TokensOf(tokens) == IF IsEmptyField(tokens) THEN <<>> ELSE tokens

\* the template has five fields, its first field is one 16-bit decimal
\* and every token of its other fields is one
IsValidTemplate(fields) ==
    /\ Len(fields) = 5
    /\ Len(fields[1]) = 1
    /\ IsUint16Decimal(fields[1][1])
    /\ \A i \in 2..5 :
          \A k \in 1..Len(TokensOf(fields[i])) :
              IsUint16Decimal(fields[i][k])

\* the four lists ParseJA3 returns, in the order of their fields
ListsOf(ret) ==
    <<ret.cipherSuites, ret.extensions, ret.supportedGroups,
      ret.ecPointFormats>>

\* C24: ParseJA3 returns an error exactly when the template has not five
\* fields or one of its tokens is no 16-bit decimal; without error, an
\* empty field has given the empty list.
C24_ErrorIffMalformed ==
    \A t \in CallsOf("ParseJA3") :
        LET fields == th[t].args.fields
            ret == th[t].ret
        IN  /\ (ret.err # "") <=> ~IsValidTemplate(fields)
            /\ ret.err = "" =>
                  \A i \in 2..5 :
                      IsEmptyField(fields[i]) => ListsOf(ret)[i - 1] = <<>>

\* the template 771,,0-65535,771, with its empty cipher and point format
\* fields parsed without error, and the cipher list is empty
C24_Witness ==
    \E t \in CallsOf("ParseJA3") :
        /\ th[t].args.fields =
               << << <<"7", "7", "1">> >>, <<>>,
                  << <<"0">>, <<"6", "5", "5", "3", "5">> >>,
                  << <<"7", "7", "1">> >>, <<>> >>
        /\ th[t].ret.err = ""
        /\ th[t].ret.cipherSuites = <<>>
        /\ th[t].ret.tlsVersion = 771

\* C25: for a valid template each returned list has one element for each
\* token of its field, the value of that token, in the order of the
\* tokens; an empty field gives a list of length 0.
C25_ListsFollowTokens ==
    \A t \in CallsOf("ParseJA3") :
        LET fields == th[t].args.fields
            ret == th[t].ret
        IN  IsValidTemplate(fields) =>
                \A i \in 2..5 :
                    LET tokens == TokensOf(fields[i])
                        list == ListsOf(ret)[i - 1]
                    IN  /\ Len(list) = Len(tokens)
                        /\ \A k \in 1..Len(tokens) :
                              list[k] = DecimalValue(tokens[k])
                        /\ IsEmptyField(fields[i]) => Len(list) = 0

\* the template 771,0-65535,,771,771 gave the ciphers 0, 65535 in that
\* order and no extension
C25_Witness ==
    \E t \in CallsOf("ParseJA3") :
        /\ th[t].args.fields =
               << << <<"7", "7", "1">> >>,
                  << <<"0">>, <<"6", "5", "5", "3", "5">> >>, <<>>,
                  << <<"7", "7", "1">> >>, << <<"7", "7", "1">> >> >>
        /\ th[t].ret.cipherSuites = <<0, 65535>>
        /\ Len(th[t].ret.extensions) = 0

----------------------------------------------------------------------------
(* C26, C27, C28 *)

\* the lists with the elements of list in another order, list among them
Reorderings(list) ==
    { [i \in 1..Len(list) |-> list[p[i]]] :
        p \in { q \in [1..Len(list) -> 1..Len(list)] :
                  \A i, j \in 1..Len(list) : i # j => q[i] # q[j] } }

\* the number a string of hexadecimal digits stands for
RECURSIVE HexValue(_)
HexValue(token) ==
    IF token = <<>> THEN 0
    ELSE HexValue(SubSeq(token, 1, Len(token) - 1)) * 16
             + (HexRank(token[Len(token)]) - 1)

\* segment holds the values of list in the order of list, each as four
\* hexadecimal digits, with commas between them
HoldsInOrder(segment, list) ==
    IF list = <<>> THEN segment = <<>>
    ELSE LET tokens == Split(segment, ",")
         IN  /\ Len(tokens) = Len(list)
             /\ \A k \in 1..Len(list) :
                   Len(tokens[k]) = 4 /\ HexValue(tokens[k]) = list[k]

\* C26: GenerateJA4 returns the same string for the ciphers and the
\* extensions in any other order; GenerateJA4R returns the ciphers,
\* the extensions and the groups in the order given, and a different
\* string for every different order of the ciphers.
C26_JA4SortsJA4RKeepsOrder ==
    /\ \A t \in CallsOf("GenerateJA4") :
          LET a == th[t].args
          IN  \A c \in Reorderings(a.cipherSuites),
                 e \in Reorderings(a.extensions) :
                  GenerateJA4(a.tlsVersion, c, e, a.supportedGroups,
                              a.alpnProtocols) = th[t].ret
    /\ \A t \in CallsOf("GenerateJA4R") :
          LET a == th[t].args
              segments == Split(th[t].ret, "_")
          IN  /\ Len(segments) = 4
              /\ HoldsInOrder(segments[2], a.cipherSuites)
              /\ HoldsInOrder(segments[3], a.extensions)
              /\ HoldsInOrder(segments[4], a.supportedGroups)
              /\ \A c \in Reorderings(a.cipherSuites) \ {a.cipherSuites} :
                    GenerateJA4R(a.tlsVersion, c, a.extensions,
                                 a.supportedGroups, a.alpnProtocols)
                        # th[t].ret

\* GenerateJA4 was called on the ciphers 4865, 10, 255 and the extensions
\* 23, 0 and returned them sorted as 000a,00ff,1301 and 0000,0017
C26_Witness ==
    \E t \in CallsOf("GenerateJA4") :
        /\ th[t].args.cipherSuites = <<4865, 10, 255>>
        /\ th[t].args.extensions = <<23, 0>>
        /\ th[t].args.tlsVersion = 772
        /\ th[t].args.alpnProtocols = <<"h2">>
        /\ th[t].ret =
               <<"t", "1", "3", "h", "2", "1", "5", "1", "6", "_",
                 "0", "0", "0", "a", ",", "0", "0", "f", "f", ",",
                 "1", "3", "0", "1", "_",
                 "0", "0", "0", "0", ",", "0", "0", "1", "7">>

\* C27: the string of GenerateJA4 and of GenerateJA4R starts with t, then
\* 12 for version 771, 11 for 770 and 13 for any other, then h2 if h2 is
\* in the ALPN list, else h1 if http/1.1 is, else d.
C27_VersionAndProtocolTags ==
    \A t \in CallsOf("GenerateJA4") \cup CallsOf("GenerateJA4R") :
        LET a == th[t].args
            has(p) == \E i \in 1..Len(a.alpnProtocols) :
                          a.alpnProtocols[i] = p
            ver == IF a.tlsVersion = 771 THEN <<"1", "2">>
                   ELSE IF a.tlsVersion = 770 THEN <<"1", "1">>
                   ELSE <<"1", "3">>
            proto == IF has("h2") THEN <<"h", "2">>
                     ELSE IF has("http/1.1") THEN <<"h", "1">>
                     ELSE <<"d">>
            rest == IF th[t].op = "GenerateJA4"
                    THEN <<"1", "5", "1", "6">> ELSE <<>>
        IN  Split(th[t].ret, "_")[1] = <<"t">> \o ver \o proto \o rest

\* GenerateJA4R was called with version 769 and the ALPN list http/1.1, h2
\* and returned a string that starts with t13h2_
C27_Witness ==
    \E t \in CallsOf("GenerateJA4R") :
        /\ th[t].args.tlsVersion = 769
        /\ th[t].args.alpnProtocols = <<"http/1.1", "h2">>
        /\ SubSeq(th[t].ret, 1, 6) = <<"t", "1", "3", "h", "2", "_">>

\* segment holds the values of list in the order of list, each in decimal
\* without leading zeros, with hyphens between them
HoldsDecimals(segment, list) ==
    IF list = <<>> THEN segment = <<>>
    ELSE LET tokens == Split(segment, "-")
         IN  /\ Len(tokens) = Len(list)
             /\ \A k \in 1..Len(list) :
                   /\ tokens[k] # <<>>
                   /\ \A i \in 1..Len(tokens[k]) : IsDigit(tokens[k][i])
                   /\ Len(tokens[k]) > 1 => tokens[k][1] # "0"
                   /\ DecimalValue(tokens[k]) = list[k]

\* C28: the PeetPrint string has five segments between '|': the
\* negotiated and the record version in decimal with a hyphen between
\* them, then the groups, the signature algorithms, the extensions and
\* the ciphers, each in decimal in the order given; the segment of an
\* empty list is empty.
C28_PeetPrintFiveSegments ==
    \A t \in CallsOf("GeneratePeetPrint") :
        LET a == th[t].args
            segments == Split(th[t].ret, "|")
        IN  /\ Len(segments) = 5
            /\ HoldsDecimals(segments[1],
                             <<a.tlsVersionNegotiated, a.tlsVersionRecord>>)
            /\ HoldsDecimals(segments[2], a.supportedGroups)
            /\ HoldsDecimals(segments[3], a.signatureAlgorithms)
            /\ HoldsDecimals(segments[4], a.extensions)
            /\ HoldsDecimals(segments[5], a.cipherSuites)

\* with no signature algorithm and no extension the string is
\* 772-771|29|||1027-0
C28_Witness ==
    \E t \in CallsOf("GeneratePeetPrint") :
        /\ th[t].args.signatureAlgorithms = <<>>
        /\ th[t].args.extensions = <<>>
        /\ th[t].ret =
               <<"7", "7", "2", "-", "7", "7", "1", "|", "2", "9", "|", "|",
                 "|", "1", "0", "2", "7", "-", "0">>

----------------------------------------------------------------------------
(* Records as objects: what a fingerprint.Data points to, and who writes *)
(* to it.  Here recs is the heap of all objects, a reference is an index *)
(* of it (0 is nil), lastFingerprint[c] is a reference.                  *)

MaxCalls == 4

\* a map[string]uint32, the backing array of a []Frame, a HeaderPriority
MapObject(val) == [kind |-> "map", val |-> val]

ArrayObject(elems, cap) == [kind |-> "array", elems |-> elems, cap |-> cap]

PriorityObject(val) == [kind |-> "priority", val |-> val]

\* a slice: its array and its length; the nil slice
NoSlice == [arr |-> 0, len |-> 0]

SliceValue(heap, s) ==
    IF s.arr = 0 THEN <<>> ELSE SubSeq(heap[s.arr].elems, 1, s.len)

\* the ConnectionDetails made by DialTLS after a handshake
DetailsObject(connectedAt, serverName) ==
    [NewDetails(connectedAt, serverName) EXCEPT
        !.TLSVersion = 772, !.HandshakeComplete = TRUE,
        !.HTTP2Settings = 0, !.HTTP2Frames = NoSlice, !.HTTP2Priority = 0]

\* the details behind the pointer p with its references followed
DetailsValue(heap, p) ==
    IF p = 0 THEN Nil
    ELSE Some([heap[p] EXCEPT
                  !.HTTP2Settings = IF @ = 0 THEN Nil ELSE Some(heap[@].val),
                  !.HTTP2Frames = SliceValue(heap, @),
                  !.HTTP2Priority = IF @ = 0 THEN Nil
                                    ELSE Some(heap[@].val)])

\* the &fingerprint.Data of GenerateFingerprintData(profile, p): its
\* strings, and in its HTTP/2 part the references copied from the details
DataObject(profile, heap, p) ==
    LET fp == GenerateFingerprintData(profile, DetailsValue(heap, p))
    IN  [kind |-> "data",
         strings |-> [fp EXCEPT !.HTTP2 = Nil],
         http2 |-> IF fp.HTTP2 = Nil THEN Nil
                   ELSE Some([Settings |-> heap[p].HTTP2Settings,
                              WindowUpdate |-> heap[p].HTTP2WindowUpdate,
                              HeaderPriority |-> heap[p].HTTP2Priority,
                              SentFrames |-> heap[p].HTTP2Frames,
                              ConnectionPreface |-> ConnectionPreface])]

\* what a reader of the record behind ref sees, maps and slices included
DataValue(heap, ref) ==
    [heap[ref].strings EXCEPT
        !.HTTP2 =
            IF heap[ref].http2 = Nil THEN Nil
            ELSE LET h == heap[ref].http2[1]
                 IN  Some([Settings |-> heap[h.Settings].val,
                           WindowUpdate |-> h.WindowUpdate,
                           HeaderPriority |->
                               IF h.HeaderPriority = 0 THEN Nil
                               ELSE Some(heap[h.HeaderPriority].val),
                           SentFrames |-> SliceValue(heap, h.SentFrames),
                           ConnectionPreface |-> h.ConnectionPreface])]

\* append(t.frames, frame): in place while the array has room, else into
\* a new array of twice the capacity
AppendFrame(heap, s, frame) ==
    IF s.arr # 0 /\ s.len < heap[s.arr].cap
    THEN [heap  |-> [heap EXCEPT ![s.arr].elems =
                        Append(SubSeq(@, 1, s.len), frame)],
          slice |-> [arr |-> s.arr, len |-> s.len + 1]]
    ELSE [heap  |-> Append(heap,
                           ArrayObject(Append(SliceValue(heap, s), frame),
                                       IF s.len = 0 THEN 1 ELSE 2 * s.len)),
          slice |-> [arr |-> Len(heap) + 1, len |-> s.len + 1]]

\* TrackFrame on the tracker tr: the frame appended, the tracker's own
\* settings map written in place, a new HeaderPriority when one is found
TrackFrameIn(heap, tr, frame) ==
    LET a  == AppendFrame(heap, tr.frames, frame)
        h2 == [a.heap EXCEPT ![tr.settings].val = TrackSettings(@, frame)]
        p  == TrackPriority(Nil, frame)
    IN  [heap |-> IF p = Nil THEN h2 ELSE Append(h2, PriorityObject(p[1])),
         tracker |->
             [frames     |-> a.slice,
              settings   |-> tr.settings,
              windowSize |-> TrackWindow(tr.windowSize, frame),
              priority   |-> IF p = Nil THEN tr.priority ELSE Len(h2) + 1]]

RECURSIVE TrackAllIn(_, _, _)
TrackAllIn(heap, tr, frames) ==
    IF frames = <<>> THEN [heap |-> heap, tracker |-> tr]
    ELSE LET r == TrackFrameIn(heap, tr, Head(frames))
         IN  TrackAllIn(r.heap, r.tracker, Tail(frames))

GetSettingsInNoCopy(heap, tr) == [heap |-> heap, ref |-> tr.settings]

\* GetSettings: a new map with the pairs of the tracker's
GetSettingsIn(heap, tr) ==
    [heap |-> Append(heap, MapObject(heap[tr.settings].val)),
     ref  |-> Len(heap) + 1]

\* GetFrames: a new array with the frames of the tracker's
GetFramesIn(heap, tr) ==
    [heap  |-> Append(heap, ArrayObject(SliceValue(heap, tr.frames),
                                        tr.frames.len)),
     slice |-> [arr |-> Len(heap) + 1, len |-> tr.frames.len]]

\* updateFingerprint of the client of profile name and tracker tr: the
\* four fields of the latest details overwritten, then a new record
updateFingerprintIn(heap, conns, name, tr, order) ==
    LET details == SelectLatest(heap, conns, order, "none")
        s  == GetSettingsIn(heap, tr)
        f  == GetFramesIn(s.heap, tr)
        h3 == IF details = 0 THEN heap
              ELSE [f.heap EXCEPT
                       ![details].HTTP2Settings = s.ref,
                       ![details].HTTP2Frames = f.slice,
                       ![details].HTTP2WindowUpdate = tr.windowSize,
                       ![details].HTTP2Priority = tr.priority]
    IN  [heap |-> Append(h3, DataObject(Profile(name), h3, details)),
         fp   |-> Len(h3) + 1]

\* client.New(name) on the heap: the tracker with its settings map, the
\* preset frames tracked, the first record
NewClientIn(heap, name) ==
    LET h1 == Append(heap, MapObject(EmptyMap))
        tr == [frames |-> NoSlice, settings |-> Len(heap) + 1,
               windowSize |-> 0, priority |-> 0]
        t  == TrackAllIn(h1, tr, CreateHTTP2FrameForProfile(name))
        u  == updateFingerprintIn(t.heap, NewTLSTracker, name, t.tracker,
                                  <<>>)
    IN  [heap |-> u.heap, tracker |-> t.tracker, fp |-> u.fp]

\* the two clients, made one after the other
FirstClient == NewClientIn(<<>>, "Chrome120")

SecondClient == NewClientIn(FirstClient.heap, "Firefox121")

InitObjects ==
    /\ now = 1
    /\ recs = SecondClient.heap
    /\ connections = NewTLSTracker
    /\ trackers = [c \in Clients |->
                      IF c = "Chrome120" THEN FirstClient.tracker
                      ELSE SecondClient.tracker]
    /\ lastFingerprint = [c \in Clients |->
                             IF c = "Chrome120" THEN FirstClient.fp
                             ELSE SecondClient.fp]
    /\ pool = [c \in Clients |-> {}]
    /\ th = [t \in Threads |-> IdleThread]
    /\ storeLog = <<>>
    /\ written = {}
    /\ ops = 0
    /\ clientHeaders = [c \in Clients |-> NewOrderedHeaders]

\* a handshake to addr completes and its details are stored
DialObject(addr) ==
    /\ ops < MaxCalls
    /\ recs' = Append(recs, DetailsObject(now, addr))
    /\ connections' = StoreConnection(connections, addr, Len(recs) + 1)
    /\ now' = now + 1
    /\ ops' = ops + 1
    /\ UNCHANGED <<trackers, lastFingerprint, pool, th, storeLog, written, clientHeaders>>

\* the frames a caller of TrackFrame passes
TrackedInputs ==
    { Frame("SETTINGS", 0, 6, <<>>, <<>>, Some([ENABLE_PUSH |-> 1])),
      Frame("WINDOW_UPDATE", 0, 5, <<>>, <<>>, Nil),
      Frame("HEADERS", 3, 40, <<"Priority">>, <<>>, Some(EmptyMap)) }

\* c.http2Tracker.TrackFrame(frame)
TrackObject(c, frame) ==
    /\ ops < MaxCalls
    /\ LET r == TrackFrameIn(recs, trackers[c], frame)
       IN  /\ recs' = r.heap
           /\ trackers' = [trackers EXCEPT ![c] = r.tracker]
    /\ ops' = ops + 1
    /\ UNCHANGED <<now, connections, lastFingerprint, pool, th, storeLog,
                   written, clientHeaders>>

\* thread t gets the response of a request on client c: the HEADERS frame
\* tracked, updateFingerprint, the record attached.  returned is what the
\* record showed at that moment.
RequestObject(t, c) ==
    /\ ops < MaxCalls
    /\ \E order \in Orders(DOMAIN connections) :
          LET r == TrackFrameIn(recs, trackers[c], HeadersFrame)
              u == updateFingerprintIn(r.heap, connections, c, r.tracker,
                                       order)
          IN  /\ recs' = u.heap
              /\ trackers' = [trackers EXCEPT ![c] = r.tracker]
              /\ lastFingerprint' = [lastFingerprint EXCEPT ![c] = u.fp]
              /\ th' = [th EXCEPT ![t] =
                           [IdleThread EXCEPT
                               !.op = "request", !.pc = "done",
                               !.client = c,
                               !.resp = Some([fp |-> u.fp,
                                              returned |->
                                                  DataValue(u.heap, u.fp),
                                              at |-> ops])]]
    /\ ops' = ops + 1
    /\ UNCHANGED <<now, connections, pool, storeLog, written, clientHeaders>>

NextObjects ==
    \/ \E addr \in Addrs : DialObject(addr)
    \/ \E c \in Clients, frame \in TrackedInputs : TrackObject(c, frame)
    \/ \E t \in Threads, c \in Clients : RequestObject(t, c)

SpecObjects == InitObjects /\ [][NextObjects]_vars

----------------------------------------------------------------------------
(* C21 *)

\* C21: the record of every response shows in every field, the settings
\* map and the frames of its HTTP/2 part included, what it showed when the
\* response was returned; and whenever a client's cached record changes,
\* the new one is an object that was not there before.
C21_AttachedRecordNeverChanges ==
    /\ [](\A t \in Threads :
             th[t].resp # Nil =>
                 DataValue(recs, th[t].resp[1].fp) = th[t].resp[1].returned)
    /\ [][\A c \in Clients :
             lastFingerprint'[c] # lastFingerprint[c] =>
                 /\ lastFingerprint'[c] > Len(recs)
                 /\ lastFingerprint[c] <= Len(recs) =>
                       recs'[lastFingerprint[c]] = recs[lastFingerprint[c]]]_vars

\* a response of Chrome120 carries an HTTP/2 part with ENABLE_PUSH = 0;
\* since it was returned the client's tracker has tracked a SETTINGS frame
\* with ENABLE_PUSH = 1, and another request on the same client has
\* replaced the cached record by one that shows the new value
C21_Witness ==
    \E t \in Threads, u \in Threads :
        /\ th[t].resp # Nil /\ th[u].resp # Nil
        /\ th[t].client = "Chrome120" /\ th[u].client = "Chrome120"
        /\ th[t].resp[1].at < th[u].resp[1].at
        /\ th[t].resp[1].returned.HTTP2 # Nil
        /\ th[t].resp[1].returned.HTTP2[1].Settings.ENABLE_PUSH = 0
        /\ th[u].resp[1].returned.HTTP2 # Nil
        /\ th[u].resp[1].returned.HTTP2[1].Settings.ENABLE_PUSH = 1
        /\ lastFingerprint["Chrome120"] = th[u].resp[1].fp
        /\ Len(th[u].resp[1].returned.HTTP2[1].SentFrames)
               > Len(th[t].resp[1].returned.HTTP2[1].SentFrames) + 1

----------------------------------------------------------------------------
(* Client headers: OrderedHeaders, RequestOptions, applyAllHeaders *)

\* header names in their lower-case and their canonical MIME form
NameForms ==
    { <<"user-agent", "User-Agent">>, <<"accept", "Accept">>,
      <<"accept-language", "Accept-Language">>,
      <<"accept-encoding", "Accept-Encoding">>,
      <<"x-source", "X-Source">>, <<"sec-ch-ua", "Sec-Ch-Ua">>,
      <<"sec-ch-ua-mobile", "Sec-Ch-Ua-Mobile">>,
      <<"sec-ch-ua-platform", "Sec-Ch-Ua-Platform">>,
      <<"dnt", "Dnt">>, <<"connection", "Connection">>,
      <<"upgrade-insecure-requests", "Upgrade-Insecure-Requests">>,
      <<"sec-fetch-site", "Sec-Fetch-Site">>,
      <<"sec-fetch-mode", "Sec-Fetch-Mode">>,
      <<"sec-fetch-user", "Sec-Fetch-User">>,
      <<"sec-fetch-dest", "Sec-Fetch-Dest">> }

\* strings.ToLower on a header name
ToLower(name) ==
    IF \E f \in NameForms : f[2] = name
    THEN (CHOOSE f \in NameForms : f[2] = name)[1]
    ELSE IF name = "DNT" THEN "dnt"
    ELSE name

\* textproto.CanonicalMIMEHeaderKey, the key http.Header.Set and Get use
CanonicalMIMEHeaderKey(name) ==
    IF \E f \in NameForms : f[1] = ToLower(name)
    THEN (CHOOSE f \in NameForms : f[1] = ToLower(name))[2]
    ELSE name

\* http.Header.Set(name, value) and http.Header.Get(name)
HeaderSet(h, name, value) ==
    LET key == CanonicalMIMEHeaderKey(name)
    IN  [k \in (DOMAIN h) \cup {key} |-> IF k = key THEN value ELSE h[k]]

HeaderGet(h, name) ==
    LET key == CanonicalMIMEHeaderKey(name)
    IN  IF key \in DOMAIN h THEN h[key] ELSE ""

\* OrderedHeaders.Set, Del, Clear
OrderedSetCaseSensitive(oh, name, value) ==
    IF \E i \in 1..Len(oh) : oh[i].name = name
    THEN [i \in 1..Len(oh) |->
             IF oh[i].name = name
             THEN [name |-> oh[i].name, value |-> value]
             ELSE oh[i]]
    ELSE Append(oh, [name |-> name, value |-> value])

OrderedSet(oh, name, value) ==
    IF \E i \in 1..Len(oh) : oh[i].name = ToLower(name)
    THEN [i \in 1..Len(oh) |->
             IF oh[i].name = ToLower(name)
             THEN [name |-> oh[i].name, value |-> value]
             ELSE oh[i]]
    ELSE Append(oh, [name |-> ToLower(name), value |-> value])

OrderedDel(oh, name) == SelectSeq(oh, LAMBDA h : h.name # ToLower(name))

OrderedClear(oh) == <<>>

\* for _, h := range c.headers.headers { req.Header.Set(h.name, h.value) }
RECURSIVE SetOrdered(_, _)
SetOrdered(h, oh) ==
    IF oh = <<>> THEN h
    ELSE SetOrdered(HeaderSet(h, Head(oh).name, Head(oh).value), Tail(oh))

\* for key, value := range m { req.Header.Set(key, value) }, the keys in
\* the order of the sequence keys
RECURSIVE SetMap(_, _, _)
SetMap(h, m, keys) ==
    IF keys = <<>> THEN h
    ELSE SetMap(HeaderSet(h, Head(keys), m[Head(keys)]), m, Tail(keys))

\* an order of the keys of m
KeysOf(m) == CHOOSE order \in Orders(DOMAIN m) : TRUE

\* the HeadersSlice loop: pairs of another length are skipped
RECURSIVE SetPairs(_, _)
SetPairs(h, pairs) ==
    IF pairs = <<>> THEN h
    ELSE SetPairs(IF Len(Head(pairs)) = 2
                  THEN HeaderSet(h, Head(pairs)[1], Head(pairs)[2])
                  ELSE h,
                  Tail(pairs))

\* the place of the first sep in s, 0 if there is none
RECURSIVE IndexFrom(_, _, _)
IndexFrom(s, sep, i) ==
    IF i > Len(s) THEN 0
    ELSE IF s[i] = sep THEN i
    ELSE IndexFrom(s, sep, i + 1)

\* strings.SplitN(s, ":", 2)
SplitN2(s) ==
    IF IndexFrom(s, ":", 1) = 0 THEN <<s>>
    ELSE <<SubSeq(s, 1, IndexFrom(s, ":", 1) - 1),
           SubSeq(s, IndexFrom(s, ":", 1) + 1, Len(s))>>

\* strings.TrimSpace
RECURSIVE TrimSpace(_)
TrimSpace(s) ==
    IF s = <<>> THEN s
    ELSE IF Head(s) = " " THEN TrimSpace(Tail(s))
    ELSE IF s[Len(s)] = " " THEN TrimSpace(SubSeq(s, 1, Len(s) - 1))
    ELSE s

\* the texts that occur in header lines, with their characters
Words ==
    { [text |-> "X-Source", chars |-> <<"X", "-", "S", "o", "u", "r", "c", "e">>],
      [text |-> "list", chars |-> <<"l", "i", "s", "t">>],
      [text |-> "x-source", chars |-> <<"x", "-", "s", "o", "u", "r", "c", "e">>],
      [text |-> "Accept", chars |-> <<"A", "c", "c", "e", "p", "t">>],
      [text |-> "DNT", chars |-> <<"D", "N", "T">>],
      [text |-> "1", chars |-> <<"1">>],
      [text |-> "2", chars |-> <<"2">>],
      [text |-> "a:b", chars |-> <<"a", ":", "b">>],
      [text |-> "", chars |-> <<>>] }

TextOf(chars) == (CHOOSE w \in Words : w.chars = chars).text

\* the HeadersStringList loop: lines without a colon are skipped
RECURSIVE SetLines(_, _)
SetLines(h, lines) ==
    IF lines = <<>> THEN h
    ELSE SetLines(IF Len(SplitN2(Head(lines))) = 2
                  THEN HeaderSet(h,
                                 TextOf(TrimSpace(SplitN2(Head(lines))[1])),
                                 TextOf(TrimSpace(SplitN2(Head(lines))[2])))
                  ELSE h,
                  Tail(lines))

\* json.Unmarshal([]byte(s), &headers) on the documents the model sends
Unmarshal(s) ==
    CASE s = "{\"X-Source\":\"json\"}" ->
             [err |-> "", headers |-> [k \in {"X-Source"} |-> "json"]]
      [] s = "{\"User-Agent\":\"\"}" ->
             [err |-> "", headers |-> [k \in {"User-Agent"} |-> ""]]
      [] s = "{}" -> [err |-> "", headers |-> EmptyMap]
      [] s = "null" -> [err |-> "", headers |-> EmptyMap]
      [] s = "{\"X-Source\":\"1\",\"Accept\":\"2\"}" ->
             [err |-> "",
              headers |-> [k \in {"X-Source", "Accept"} |->
                              IF k = "Accept" THEN "2" ELSE "1"]]
      [] s = "{\"X-Source\":\"1\",\"x-source\":\"2\"}" ->
             [err |-> "",
              headers |-> [k \in {"X-Source", "x-source"} |->
                              IF k = "x-source" THEN "2" ELSE "1"]]
      [] s = "{\"X-Source\":\"1\",\"Accept\":2}" ->
             [err |-> "cannot unmarshal number",
              headers |-> [k \in {"X-Source"} |-> "1"]]
      [] OTHER -> [err |-> "invalid character", headers |-> EmptyMap]

\* the HeadersJSON step, as the last step of applyRequestHeaders
SetJSON(h, json) ==
    IF json # "" /\ json # "{}" /\ Unmarshal(json).err = ""
    THEN SetMap(h, Unmarshal(json).headers, KeysOf(Unmarshal(json).headers))
    ELSE h

\* applyRequestHeaders: Headers, then HeadersSlice, then
\* HeadersStringList, then HeadersJSON, each overwriting
applyRequestHeaders(h, opts) ==
    IF opts = Nil THEN h
    ELSE SetJSON(
             SetLines(
                 SetPairs(
                     IF opts[1].Headers # Nil
                     THEN SetMap(h, opts[1].Headers[1],
                                 KeysOf(opts[1].Headers[1]))
                     ELSE h,
                     opts[1].HeadersSlice),
                 opts[1].HeadersStringList),
             opts[1].HeadersJSON)

\* hasUserHeaders(opts); the client's own headers are not looked at
hasUserHeaders(opts) ==
    /\ opts # Nil
    /\ \/ MapLen(opts[1].Headers) > 0
       \/ Len(opts[1].HeadersSlice) > 0
       \/ Len(opts[1].HeadersStringList) > 0
       \/ (opts[1].HeadersJSON # "" /\ opts[1].HeadersJSON # "{}")

\* the header part of a profile
HeaderProfile(name) ==
    IF name = "Firefox121"
    THEN [UserAgent |-> "Firefox/121.0", Accept |-> "text/html",
          AcceptLanguage |-> "en-US,en;q=0.5",
          AcceptEncoding |-> "gzip, deflate, br",
          HeaderOrder |-> <<"User-Agent", "Accept", "Accept-Language",
                            "Accept-Encoding", "DNT", "Connection",
                            "Upgrade-Insecure-Requests">>,
          SecHeaders |-> Nil]
    ELSE [UserAgent |-> "Chrome/120.0.0.0", Accept |-> "text/html",
          AcceptLanguage |-> "en-US,en;q=0.9",
          AcceptEncoding |-> "gzip, deflate, br",
          HeaderOrder |-> <<":method", ":authority", ":scheme", ":path",
                            "sec-ch-ua", "sec-ch-ua-mobile",
                            "sec-ch-ua-platform",
                            "Upgrade-Insecure-Requests", "User-Agent",
                            "Accept", "Sec-Fetch-Site", "Sec-Fetch-Mode",
                            "Sec-Fetch-User", "Sec-Fetch-Dest",
                            "Accept-Encoding", "Accept-Language">>,
          SecHeaders |-> Nil]

\* getProfileHeaders(method, parsedURL)
getProfileHeaders(name, method) ==
    LET p == HeaderProfile(name)
        basic == [k \in {"User-Agent", "Accept", "Accept-Language",
                         "Accept-Encoding"} |->
                     CASE k = "User-Agent" -> p.UserAgent
                       [] k = "Accept" -> p.Accept
                       [] k = "Accept-Language" -> p.AcceptLanguage
                       [] OTHER -> p.AcceptEncoding]
        common == [k \in {"Connection", "Upgrade-Insecure-Requests"} |->
                      IF k = "Connection" THEN "keep-alive" ELSE "1"]
        chrome == [k \in {"sec-ch-ua", "sec-ch-ua-mobile",
                          "sec-ch-ua-platform", "DNT"} |->
                      CASE k = "sec-ch-ua" ->
                               "\"Not_A Brand\";v=\"8\", \"Chromium\";v=\"120\", \"Google Chrome\";v=\"120\""
                        [] k = "sec-ch-ua-mobile" -> "?0"
                        [] k = "sec-ch-ua-platform" -> "\"Windows\""
                        [] OTHER -> "1"]
        fetch == IF method = "GET"
                 THEN [k \in {"Sec-Fetch-Site", "Sec-Fetch-Mode",
                              "Sec-Fetch-User", "Sec-Fetch-Dest"} |->
                          CASE k = "Sec-Fetch-Site" -> "none"
                            [] k = "Sec-Fetch-Mode" -> "navigate"
                            [] k = "Sec-Fetch-User" -> "?1"
                            [] OTHER -> "document"]
                 ELSE [k \in {"Sec-Fetch-Site", "Sec-Fetch-Mode",
                              "Sec-Fetch-Dest"} |->
                          CASE k = "Sec-Fetch-Site" -> "same-origin"
                            [] k = "Sec-Fetch-Mode" -> "cors"
                            [] OTHER -> "empty"]
        named == CASE name \in {"Chrome120", "Edge120"} ->
                          MergeMap(MergeMap(chrome, common), fetch)
                   [] name = "Firefox121" ->
                          MergeMap([k \in {"DNT"} |-> "1"], common)
                   [] name = "Safari17" -> common
                   [] OTHER -> EmptyMap
    IN  MergeMap(MergeMap(basic, named), MapOf(p.SecHeaders))

\* the HeaderOrder loop of applyAllHeaders
RECURSIVE SetInOrder(_, _, _)
SetInOrder(h, order, profileHeaders) ==
    IF order = <<>> THEN h
    ELSE SetInOrder(IF /\ Head(order) \notin {":method", ":authority",
                                              ":scheme", ":path"}
                       /\ Head(order) \in DOMAIN profileHeaders
                    THEN HeaderSet(h, Head(order),
                                   profileHeaders[Head(order)])
                    ELSE h,
                    Tail(order), profileHeaders)

\* the four defaults of the custom branch, each only over an empty value
RECURSIVE SetDefaults(_, _, _)
SetDefaults(h, names, profileHeaders) ==
    IF names = <<>> THEN h
    ELSE SetDefaults(IF HeaderGet(h, Head(names)) = ""
                     THEN HeaderSet(h, Head(names),
                                    profileHeaders[Head(names)])
                     ELSE h,
                     Tail(names), profileHeaders)

\* applyAllHeaders: req.Header for a request of the client with headers oh
applyAllHeaders(oh, name, method, opts) ==
    IF hasUserHeaders(opts)
    THEN SetDefaults(applyRequestHeaders(SetOrdered(EmptyMap, oh), opts),
                     <<"User-Agent", "Accept", "Accept-Language",
                       "Accept-Encoding">>,
                     getProfileHeaders(name, method))
    ELSE SetOrdered(SetInOrder(EmptyMap, HeaderProfile(name).HeaderOrder,
                               getProfileHeaders(name, method)),
                    oh)

----------------------------------------------------------------------------
(* Header calls and requests of one caller *)

NoOptions ==
    [Headers |-> Nil, HeadersSlice |-> <<>>, HeadersStringList |-> <<>>,
     HeadersJSON |-> ""]

MaxHeaderCalls == 3

\* RequestOptions in which each of the four sources is absent or names
\* X-Source; the slice also has a pair that is none, the list a line
\* without a colon
SourceOptions ==
    { [Headers |-> hs, HeadersSlice |-> sl, HeadersStringList |-> ls,
       HeadersJSON |-> js] :
        hs \in { Nil, Some([k \in {"X-Source"} |-> "headers"]) },
        sl \in { <<>>, << <<"X-Source", "slice">>, <<"X-Source">> >> },
        ls \in { <<>>, << <<"n", "o", "c", "o", "l", "o", "n">>,
                          <<"X", "-", "S", "o", "u", "r", "c", "e", ":", " ", "l", "i", "s", "t">> >> },
        js \in { "", "{\"X-Source\":\"json\"}" } }

\* RequestOptions with a User-Agent in lower case, with an empty one,
\* and with JSON that is {} or is no JSON
EdgeOptions ==
    { [NoOptions EXCEPT !.Headers = hs, !.HeadersJSON = js] :
        hs \in { Nil, Some([k \in {"user-agent"} |-> "headers"]) },
        js \in { "{}", "{\"User-Agent\":\"\"}", "{invalid" } }
    \cup { [NoOptions EXCEPT
               !.Headers = Some([k \in {"user-agent"} |-> "headers"])] }

\* the opts argument of a request: nil or one of the above
OptionInputs == {Nil} \cup { Some(o) : o \in SourceOptions \cup EdgeOptions }

InitHeaders ==
    /\ now = 1
    /\ recs = <<>>
    /\ connections = NewTLSTracker
    /\ trackers = [c \in Clients |-> NewClientTracker(c)]
    /\ lastFingerprint =
           [c \in Clients |-> Assembled(c, Deref(<<>>, 0), 0, 0)]
    /\ pool = [c \in Clients |-> {}]
    /\ th = [t \in Threads |-> IdleThread]
    /\ storeLog = <<>>
    /\ written = {}
    /\ ops = 0
    /\ clientHeaders = [c \in Clients |-> NewOrderedHeaders]

\* c.SetHeader(name, value)
SetHeader(c, name, value) ==
    /\ ops < MaxHeaderCalls
    /\ ops' = ops + 1
    /\ clientHeaders' =
           [clientHeaders EXCEPT ![c] = OrderedSet(@, name, value)]
    /\ UNCHANGED <<now, recs, connections, trackers, lastFingerprint, pool,
                   th, storeLog, written>>

\* c.DelHeader(name)
DelHeader(c, name) ==
    /\ ops < MaxHeaderCalls
    /\ ops' = ops + 1
    /\ clientHeaders' = [clientHeaders EXCEPT ![c] = OrderedDel(@, name)]
    /\ UNCHANGED <<now, recs, connections, trackers, lastFingerprint, pool,
                   th, storeLog, written>>

\* c.ClearHeaders()
ClearHeaders(c) ==
    /\ ops < MaxHeaderCalls
    /\ ops' = ops + 1
    /\ clientHeaders' = [clientHeaders EXCEPT ![c] = OrderedClear(@)]
    /\ UNCHANGED <<now, recs, connections, trackers, lastFingerprint, pool,
                   th, storeLog, written>>

\* the first handshake completes and its details are stored
CaptureFirst(addr) ==
    /\ DOMAIN connections = {}
    /\ recs' = Append(recs, [NewDetails(now, addr) EXCEPT
                                !.TLSVersion = 772,
                                !.HandshakeComplete = TRUE])
    /\ connections' = StoreConnection(connections, addr, Len(recs) + 1)
    /\ now' = now + 1
    /\ UNCHANGED <<trackers, lastFingerprint, pool, th, storeLog, written,
                   ops, clientHeaders>>

\* updateFingerprint in one step: the heap after the four writes
UpdatedDetails(heap, details, tr) ==
    IF details = 0 THEN heap
    ELSE [heap EXCEPT ![details].HTTP2Settings = Some(GetSettings(tr)),
                      ![details].HTTP2Frames = GetFrames(tr),
                      ![details].HTTP2WindowUpdate = GetWindowSize(tr),
                      ![details].HTTP2Priority = GetPriority(tr)]

\* Client.Request(method, url, nil, opts) of the caller, from
\* applyAllHeaders to the response; the state keeps the latest response,
\* with the request headers it was sent with
RequestWith(c, method, opts) ==
    /\ ops < MaxHeaderCalls
    /\ Len(GetFrames(trackers[c])) < MaxFrames
    /\ ops' = ops + 1
    /\ \E order \in Orders(DOMAIN connections) :
          LET tr == TrackRequest(trackers[c])
              details == SelectLatest(recs, connections, order, "none")
              heap == UpdatedDetails(recs, details, tr)
              fp == Assembled(c, Deref(heap, details), details, 1)
          IN  /\ trackers' = [trackers EXCEPT ![c] = tr]
              /\ recs' = heap
              /\ lastFingerprint' = [lastFingerprint EXCEPT ![c] = fp]
              /\ th' = [th EXCEPT ![1] =
                           [pc |-> "done", op |-> "request", client |-> c,
                            method |-> method, opts |-> opts,
                            had |-> clientHeaders[c],
                            custom |-> hasUserHeaders(opts),
                            sent |-> applyAllHeaders(clientHeaders[c], c,
                                                     method, opts),
                            resp |-> Some(fp)]]
    /\ UNCHANGED <<now, connections, pool, storeLog, written,
                   clientHeaders>>

NextHeaders ==
    \/ \E c \in Clients, name \in {"X-Source", "User-Agent"} :
           SetHeader(c, name, "client")
    \/ \E c \in Clients, name \in {"x-source", "User-Agent"} :
           DelHeader(c, name)
    \/ \E c \in Clients : ClearHeaders(c)
    \/ \E addr \in Addrs : CaptureFirst(addr)
    \/ \E c \in Clients, method \in {"GET", "POST"}, opts \in OptionInputs :
           RequestWith(c, method, opts)

SpecHeaders == InitHeaders /\ [][NextHeaders]_vars

----------------------------------------------------------------------------
(* JA3 of the cached and of the response records *)

\* Client.GetJA3, Client.GetJA3Hash
ClientGetJA3(c) == Profile(c).JA3

ClientGetJA3Hash(c) == GenerateJA3Hash(Profile(c).JA3)

\* Response.GetJA3, Response.GetJA3Hash; fp is r.Fingerprint
ResponseGetJA3(fp) == IF fp # Nil THEN FingerprintOf(fp[1]).JA3 ELSE <<>>

ResponseGetJA3Hash(fp) ==
    IF fp # Nil THEN FingerprintOf(fp[1]).JA3Hash ELSE <<>>

\* the response the caller holds, if there is one
LatestResponse == th[1].resp

\* C22: the JA3 string and hash of every cached record and of every
\* response record are the template of the client's profile and its
\* hash, and the getters of the client and of the response agree,
\* whatever connections were captured and whatever header calls were made
C22_JA3IsTheProfileTemplate ==
    /\ \A c \in Clients :
          /\ FingerprintOf(lastFingerprint[c]).JA3 = Profile(c).JA3
          /\ FingerprintOf(lastFingerprint[c]).JA3Hash
                 = GenerateJA3Hash(Profile(c).JA3)
    /\ LatestResponse # Nil =>
          /\ FingerprintOf(LatestResponse[1]).JA3
                 = Profile(th[1].client).JA3
          /\ FingerprintOf(LatestResponse[1]).JA3Hash
                 = GenerateJA3Hash(Profile(th[1].client).JA3)
          /\ ResponseGetJA3(LatestResponse) = ClientGetJA3(th[1].client)
          /\ ResponseGetJA3Hash(LatestResponse)
                 = ClientGetJA3Hash(th[1].client)

\* a response after header calls, assembled from a captured connection
\* that negotiated another version than the template names
C22_Witness ==
    /\ LatestResponse # Nil
    /\ LatestResponse[1].from # 0
    /\ th[1].had # <<>>
    /\ FingerprintOf(LatestResponse[1]).TLSVersionNegotiated
           # FingerprintOf(LatestResponse[1]).TLSVersionRecord
    /\ ResponseGetJA3(LatestResponse) = Profile(th[1].client).JA3
    /\ \E c \in Clients : lastFingerprint[c].from = 0

----------------------------------------------------------------------------
(* Which source of a header wins *)

\* the request the caller made last, with the headers it was sent with
LatestRequest == th[1]

\* the header names the model knows, in canonical form
HeaderNames == { f[2] : f \in NameForms }

\* the values a map gives for the header h
ValuesOfMap(m, h) ==
    { m[k] : k \in { k \in DOMAIN m : CanonicalMIMEHeaderKey(k) = h } }

\* the values source i of request r gives for the header h: 1 is
\* HeadersJSON, 2 HeadersStringList, 3 HeadersSlice, 4 Headers, 5 the
\* client's persistent headers, 6 the profile's default headers
Provided(i, r, h) ==
    CASE i = 6 -> ValuesOfMap(getProfileHeaders(r.client, r.method), h)
      [] i = 5 -> { r.had[n].value :
                      n \in { n \in 1..Len(r.had) :
                                CanonicalMIMEHeaderKey(r.had[n].name) = h } }
      [] r.opts = Nil -> {}
      [] i = 4 -> ValuesOfMap(MapOf(r.opts[1].Headers), h)
      [] i = 3 -> { r.opts[1].HeadersSlice[n][2] :
                      n \in { n \in 1..Len(r.opts[1].HeadersSlice) :
                                /\ Len(r.opts[1].HeadersSlice[n]) = 2
                                /\ CanonicalMIMEHeaderKey(
                                       r.opts[1].HeadersSlice[n][1]) = h } }
      [] i = 2 -> { TextOf(TrimSpace(SplitN2(
                               r.opts[1].HeadersStringList[n])[2])) :
                      n \in { n \in 1..Len(r.opts[1].HeadersStringList) :
                                /\ Len(SplitN2(
                                       r.opts[1].HeadersStringList[n])) = 2
                                /\ CanonicalMIMEHeaderKey(
                                       TextOf(TrimSpace(SplitN2(
                                           r.opts[1].HeadersStringList[n]
                                       )[1]))) = h } }
      [] OTHER -> IF Unmarshal(r.opts[1].HeadersJSON).err = ""
                  THEN ValuesOfMap(Unmarshal(r.opts[1].HeadersJSON).headers, h)
                  ELSE {}

\* the sources of request r that name the header h
Naming(r, h) == { i \in 1..6 : Provided(i, r, h) # {} }

SetMin(S) == CHOOSE x \in S : \A y \in S : x <= y

\* C29: a header that several sources of one request name is sent with
\* the value of the highest-priority source naming it, in the order
\* HeadersJSON, HeadersStringList, HeadersSlice, Headers, the client's
\* persistent headers, the profile's default headers
C29_HighestPrioritySourceWins ==
    LatestRequest.op = "request" =>
        \A h \in HeaderNames :
            Cardinality(Naming(LatestRequest, h)) >= 2 =>
                /\ h \in DOMAIN LatestRequest.sent
                /\ LatestRequest.sent[h]
                       \in Provided(SetMin(Naming(LatestRequest, h)),
                                    LatestRequest, h)

----------------------------------------------------------------------------
(* Custom-header behaviour and full profile behaviour *)

BasicHeaders == {"User-Agent", "Accept", "Accept-Language", "Accept-Encoding"}

\* the values the caller gave for the header h of request r, through the
\* request's options or the client's persistent headers
CallerValues(r, h) == UNION { Provided(i, r, h) : i \in 1..5 }

\* the value the profile of request r has for the header h
ProfileValue(r, h) ==
    CHOOSE v \in Provided(6, r, h) : TRUE

\* request r carries the custom-header behaviour: no profile ordering,
\* nothing added but the four basic headers, and those only where the
\* caller gave none
CustomBehaviour(r) ==
    /\ r.custom
    /\ \A h \in DOMAIN r.sent : h \in BasicHeaders \/ CallerValues(r, h) # {}
    /\ \A h \in BasicHeaders :
          /\ h \in DOMAIN r.sent
          /\ IF CallerValues(r, h) # {}
             THEN r.sent[h] \in CallerValues(r, h)
             ELSE r.sent[h] = ProfileValue(r, h)

\* the names of the profile's header order that are sent
OrderedNames(r) ==
    { HeaderProfile(r.client).HeaderOrder[n] :
        n \in { n \in 1..Len(HeaderProfile(r.client).HeaderOrder) :
                  /\ HeaderProfile(r.client).HeaderOrder[n]
                         \in DOMAIN getProfileHeaders(r.client, r.method)
                  /\ HeaderProfile(r.client).HeaderOrder[n]
                         \notin {":method", ":authority", ":scheme",
                                 ":path"} } }

\* request r carries the full profile behaviour: the headers of the
\* profile's header order with the profile's values, and no others
FullProfileBehaviour(r) ==
    /\ ~r.custom
    /\ DOMAIN r.sent = { CanonicalMIMEHeaderKey(k) : k \in OrderedNames(r) }
    /\ \A k \in OrderedNames(r) :
          r.sent[CanonicalMIMEHeaderKey(k)]
              = getProfileHeaders(r.client, r.method)[k]

\* C30: a request of a client on which custom headers are set has the
\* custom-header behaviour; a request of a client without custom
\* headers, made without request headers, has the full profile behaviour
C30_ClientHeadersGiveCustomBehaviour ==
    LatestRequest.op = "request" =>
        /\ LatestRequest.had # <<>> => CustomBehaviour(LatestRequest)
        /\ (/\ LatestRequest.had = <<>>
            /\ LatestRequest.opts \in {Nil, Some(NoOptions)})
               => FullProfileBehaviour(LatestRequest)

----------------------------------------------------------------------------
(* The header calls of a client: OrderedHeaders in full *)

\* OrderedHeaders.Get
OrderedGet(oh, name) ==
    IF \E i \in 1..Len(oh) : oh[i].name = ToLower(name)
    THEN oh[CHOOSE i \in 1..Len(oh) :
                /\ oh[i].name = ToLower(name)
                /\ \A j \in 1..(i - 1) : oh[j].name # ToLower(name)].value
    ELSE ""

\* OrderedHeaders.SetMultiple, the map ranged over in the order keys
RECURSIVE OrderedSetMultiple(_, _, _)
OrderedSetMultiple(oh, m, keys) ==
    IF keys = <<>> THEN oh
    ELSE OrderedSetMultiple(OrderedSet(oh, Head(keys), m[Head(keys)]), m,
                            Tail(keys))

RECURSIVE OrderedSetFromSliceSkipping(_, _)
OrderedSetFromSliceSkipping(oh, pairs) ==
    IF pairs = <<>> THEN [headers |-> oh, err |-> ""]
    ELSE IF Len(Head(pairs)) # 2
         THEN [OrderedSetFromSliceSkipping(oh, Tail(pairs))
                  EXCEPT !.err = "invalid header pair"]
         ELSE OrderedSetFromSliceSkipping(
                  OrderedSet(oh, Head(pairs)[1], Head(pairs)[2]),
                  Tail(pairs))

\* OrderedHeaders.SetFromSlice: the headers after the call and the error
RECURSIVE OrderedSetFromSlice(_, _)
OrderedSetFromSlice(oh, pairs) ==
    IF pairs = <<>> THEN [headers |-> oh, err |-> ""]
    ELSE IF Len(Head(pairs)) # 2
         THEN [headers |-> oh, err |-> "invalid header pair"]
         ELSE OrderedSetFromSlice(
                  OrderedSet(oh, Head(pairs)[1], Head(pairs)[2]),
                  Tail(pairs))

\* OrderedHeaders.SetFromStringSlice
RECURSIVE OrderedSetFromStringSlice(_, _)
OrderedSetFromStringSlice(oh, lines) ==
    IF lines = <<>> THEN [headers |-> oh, err |-> ""]
    ELSE IF Len(SplitN2(Head(lines))) # 2
         THEN [headers |-> oh, err |-> "invalid header format"]
         ELSE OrderedSetFromStringSlice(
                  OrderedSet(oh, TextOf(TrimSpace(SplitN2(Head(lines))[1])),
                             TextOf(TrimSpace(SplitN2(Head(lines))[2]))),
                  Tail(lines))

\* OrderedHeaders.SetFromJSON, the parsed map ranged over in the order keys
OrderedSetFromJSON(oh, jsonStr, keys) ==
    IF Unmarshal(jsonStr).err # ""
    THEN [headers |-> oh, err |-> "failed to parse JSON headers"]
    ELSE [headers |-> OrderedSetMultiple(oh, Unmarshal(jsonStr).headers,
                                         keys),
          err |-> ""]

\* OrderedHeaders.GetAll, OrderedHeaders.GetAllOrdered
RECURSIVE GetAllFrom(_, _)
GetAllFrom(result, oh) ==
    IF oh = <<>> THEN result
    ELSE GetAllFrom(MergeMap(result,
                             [k \in {Head(oh).name} |-> Head(oh).value]),
                    Tail(oh))

GetAll(oh) == GetAllFrom(EmptyMap, oh)

GetAllOrdered(oh) == [i \in 1..Len(oh) |-> <<oh[i].name, oh[i].value>>]

----------------------------------------------------------------------------
(* Sequences of header calls on two clients *)

NameInputs == {"X-Source", "x-source", "Accept", "DNT"}

ValueInputs == {"1", "2"}

MapInputs ==
    { [k \in {"X-Source", "Accept"} |-> IF k = "Accept" THEN "2" ELSE "1"],
      [k \in {"X-Source", "x-source"} |-> IF k = "x-source" THEN "2" ELSE "1"],
      [k \in {"Accept"} |-> "1"],
      EmptyMap }

\* lists of pairs: well-formed, with a pair of one element or of three in
\* the middle, at the start or at the end
SliceInputs ==
    { <<>>,
      << <<"X-Source", "1">>, <<"Accept", "2">>, <<"DNT", "1">>,
         <<"x-source", "2">> >>,
      << <<"Accept", "1">>, <<"X-Source">>, <<"x-source", "2">> >>,
      << <<"Accept">>, <<"X-Source", "2">> >>,
      << <<"X-Source", "2">>, <<"Accept", "1", "2">> >> }

\* lists of lines: well-formed, with spaces, with a second colon, and
\* with a line that has no colon
StringSliceInputs ==
    { <<>>,
      << <<"X", "-", "S", "o", "u", "r", "c", "e", ":", " ", "1">>,
         <<" ", "A", "c", "c", "e", "p", "t", " ", ":", "2", " ">>,
         <<"D", "N", "T", ":", "1">>,
         <<"x", "-", "s", "o", "u", "r", "c", "e", ":", "a", ":", "b">> >>,
      << <<"A", "c", "c", "e", "p", "t", ":", " ", "1">>,
         <<"X", "-", "S", "o", "u", "r", "c", "e">>,
         <<"x", "-", "s", "o", "u", "r", "c", "e", ":", " ", "2">> >>,
      << <<"A", "c", "c", "e", "p", "t">>,
         <<"X", "-", "S", "o", "u", "r", "c", "e", ":", " ", "2">> >> }

\* documents: an object of strings, one with two spellings of a name, the
\* empty object, null, an object with a number, and text that is no JSON
JSONInputs ==
    { "{\"X-Source\":\"1\",\"Accept\":\"2\"}",
      "{\"X-Source\":\"1\",\"x-source\":\"2\"}",
      "{}", "null", "{\"X-Source\":\"1\",\"Accept\":2}", "{invalid json}", "" }

InitOrdered == InitHeaders

\* what the caller holds after a header call: the call, its arguments,
\* the client's headers before it and the error it returned
Returned(c, op, arg, value, err) ==
    [pc |-> "done", op |-> op, client |-> c, arg |-> arg, value |-> value,
     before |-> clientHeaders[c], err |-> err]

HeaderCall(c, op, arg, value, result) ==
    /\ ops' = ops + 1
    /\ clientHeaders' = [clientHeaders EXCEPT ![c] = result.headers]
    /\ th' = [th EXCEPT ![1] = Returned(c, op, arg, value, result.err)]
    /\ UNCHANGED <<now, recs, connections, trackers, lastFingerprint, pool,
                   storeLog, written>>

\* c.SetHeader(name, value)
CallSetHeader(c, name, value) ==
    /\ ops < MaxHeaderCalls
    /\ HeaderCall(c, "SetHeader", name, value,
                  [headers |-> OrderedSet(clientHeaders[c], name, value),
                   err |-> ""])

\* c.SetHeaders(headers)
CallSetHeaders(c, m) ==
    /\ ops < MaxHeaderCalls
    /\ \E keys \in Orders(DOMAIN m) :
           HeaderCall(c, "SetHeaders", m, "",
                      [headers |-> OrderedSetMultiple(clientHeaders[c], m,
                                                      keys),
                       err |-> ""])

\* c.SetHeadersFromSlice(headers)
CallSetHeadersFromSlice(c, pairs) ==
    /\ ops < MaxHeaderCalls
    /\ HeaderCall(c, "SetHeadersFromSlice", pairs, "",
                  OrderedSetFromSlice(clientHeaders[c], pairs))

\* c.SetHeadersFromStringSlice(headers)
CallSetHeadersFromStringSlice(c, lines) ==
    /\ ops < MaxHeaderCalls
    /\ HeaderCall(c, "SetHeadersFromStringSlice", lines, "",
                  OrderedSetFromStringSlice(clientHeaders[c], lines))

\* c.SetHeadersFromJSON(jsonStr)
CallSetHeadersFromJSON(c, jsonStr) ==
    /\ ops < MaxHeaderCalls
    /\ \E keys \in Orders(DOMAIN Unmarshal(jsonStr).headers) :
           HeaderCall(c, "SetHeadersFromJSON", jsonStr, "",
                      OrderedSetFromJSON(clientHeaders[c], jsonStr, keys))

\* c.DelHeader(name)
CallDelHeader(c, name) ==
    /\ ops < MaxHeaderCalls
    /\ HeaderCall(c, "DelHeader", name, "",
                  [headers |-> OrderedDel(clientHeaders[c], name),
                   err |-> ""])

\* c.ClearHeaders()
CallClearHeaders(c) ==
    /\ ops < MaxHeaderCalls
    /\ HeaderCall(c, "ClearHeaders", "", "",
                  [headers |-> OrderedClear(clientHeaders[c]), err |-> ""])

NextOrdered ==
    \/ \E c \in Clients, name \in NameInputs, value \in ValueInputs :
           CallSetHeader(c, name, value)
    \/ \E c \in Clients, m \in MapInputs : CallSetHeaders(c, m)
    \/ \E c \in Clients, pairs \in SliceInputs :
           CallSetHeadersFromSlice(c, pairs)
    \/ \E c \in Clients, lines \in StringSliceInputs :
           CallSetHeadersFromStringSlice(c, lines)
    \/ \E c \in Clients, jsonStr \in JSONInputs :
           CallSetHeadersFromJSON(c, jsonStr)
    \/ \E c \in Clients, name \in NameInputs : CallDelHeader(c, name)
    \/ \E c \in Clients : CallClearHeaders(c)

SpecOrdered == InitOrdered /\ [][NextOrdered]_vars

----------------------------------------------------------------------------
(* The persistent header list *)

\* the header call that returned last, and the list it left
LastCall == th[1]

After == clientHeaders[LastCall.client]

\* two names are equal ignoring case
EqualFold(a, b) == ToLower(a) = ToLower(b)

NamesOf(oh) == [i \in 1..Len(oh) |-> oh[i].name]

Holds(oh, name) == \E i \in 1..Len(oh) : EqualFold(oh[i].name, name)

\* the spellings of the names the calls use
Spellings == NameInputs \cup { ToLower(n) : n \in NameInputs }

\* the list oh without the entries named name, the others in their order
Without(oh, name) == SelectSeq(oh, LAMBDA h : ~EqualFold(h.name, name))

\* the calls that only set headers
SettingCalls ==
    {"SetHeader", "SetHeaders", "SetHeadersFromSlice",
     "SetHeadersFromStringSlice", "SetHeadersFromJSON"}

\* C31: the list never holds a name twice ignoring case; a call that sets
\* headers leaves the entries it found at their places and puts new names
\* behind them, SetHeader of a name the list holds changing that entry's
\* value only; DelHeader leaves the other entries in their order;
\* GetHeader gives, under every spelling, the value set last, and what it
\* gave before for any other name; ClearHeaders leaves the list empty
C31_OrderedHeadersKeepOrder ==
    /\ \A c \in Clients :
          \A i, j \in 1..Len(clientHeaders[c]) :
              i # j => ~EqualFold(clientHeaders[c][i].name,
                                  clientHeaders[c][j].name)
    /\ \A c \in Clients :
          GetAllOrdered(clientHeaders[c])
              = [i \in 1..Len(clientHeaders[c]) |->
                    <<clientHeaders[c][i].name, clientHeaders[c][i].value>>]
    /\ LastCall.pc = "done" =>
          /\ LastCall.op \in SettingCalls =>
                IsPrefix(NamesOf(LastCall.before), NamesOf(After))
          /\ LastCall.op = "SetHeader" =>
                /\ IF Holds(LastCall.before, LastCall.arg)
                   THEN Len(After) = Len(LastCall.before)
                   ELSE /\ Len(After) = Len(LastCall.before) + 1
                        /\ EqualFold(After[Len(After)].name, LastCall.arg)
                /\ \A n \in Spellings :
                      OrderedGet(After, n)
                          = IF EqualFold(n, LastCall.arg)
                            THEN LastCall.value
                            ELSE OrderedGet(LastCall.before, n)
          /\ LastCall.op = "DelHeader" =>
                /\ After = Without(LastCall.before, LastCall.arg)
                /\ \A n \in Spellings :
                      OrderedGet(After, n)
                          = IF EqualFold(n, LastCall.arg)
                            THEN ""
                            ELSE OrderedGet(LastCall.before, n)
          /\ LastCall.op = "ClearHeaders" =>
                After = <<>> /\ GetAllOrdered(After) = <<>>
          /\ \A n, m \in Spellings :
                EqualFold(n, m) => OrderedGet(After, n) = OrderedGet(After, m)

\* the middle one of three entries is deleted after an entry was set
\* again under another spelling
C31_Witness ==
    /\ LastCall.pc = "done"
    /\ LastCall.op = "DelHeader"
    /\ Len(LastCall.before) = 3
    /\ EqualFold(LastCall.arg, LastCall.before[2].name)
    /\ After = <<LastCall.before[1], LastCall.before[3]>>
    /\ LastCall.before[1].name = "x-source"
    /\ LastCall.before[1].value = "2"

----------------------------------------------------------------------------
(* Errors of the bulk header calls *)

\* the place of the first element of list that is malformed by bad, one
\* past its end if none is
RECURSIVE FirstBad(_, _, _)
FirstBad(list, bad(_), i) ==
    IF i > Len(list) THEN i
    ELSE IF bad(list[i]) THEN i
    ELSE FirstBad(list, bad, i + 1)

BadPair(pair) == Len(pair) # 2

BadLine(line) == \A i \in 1..Len(line) : line[i] # ":"

\* the name and the value a well-formed line gives
EntryOfLine(line) ==
    LET colon == CHOOSE i \in 1..Len(line) :
                     line[i] = ":" /\ \A j \in 1..(i - 1) : line[j] # ":"
    IN  <<TextOf(TrimSpace(SubSeq(line, 1, colon - 1))),
          TextOf(TrimSpace(SubSeq(line, colon + 1, Len(line))))>>

\* the list oh after setting the first n entries, one after the other
RECURSIVE SetEach(_, _, _)
SetEach(oh, entries, n) ==
    IF n = 0 THEN oh
    ELSE LET done == SetEach(oh, entries, n - 1)
             name == entries[n][1]
         IN  IF Holds(done, name)
             THEN [i \in 1..Len(done) |->
                      IF EqualFold(done[i].name, name)
                      THEN [name |-> done[i].name, value |-> entries[n][2]]
                      ELSE done[i]]
             ELSE Append(done, [name |-> ToLower(name),
                                value |-> entries[n][2]])

\* the documents that are a JSON object of strings, or null
StringObjects ==
    { "{\"X-Source\":\"1\",\"Accept\":\"2\"}",
      "{\"X-Source\":\"1\",\"x-source\":\"2\"}", "{}", "null" }

\* C32: SetHeadersFromSlice, SetHeadersFromStringSlice and
\* SetHeadersFromJSON return an error exactly when an element is
\* malformed; the slice forms have then applied the elements before the
\* first malformed one and none after it, the JSON form has changed
\* nothing; without an error every element is applied
C32_BulkCallsFailOnMalformed ==
    LastCall.pc = "done" =>
        /\ LastCall.op = "SetHeadersFromSlice" =>
              LET bad == FirstBad(LastCall.arg, BadPair, 1)
              IN  /\ (LastCall.err # "") = (bad <= Len(LastCall.arg))
                  /\ After = SetEach(LastCall.before, LastCall.arg, bad - 1)
        /\ LastCall.op = "SetHeadersFromStringSlice" =>
              LET bad == FirstBad(LastCall.arg, BadLine, 1)
              IN  /\ (LastCall.err # "") = (bad <= Len(LastCall.arg))
                  /\ After = SetEach(LastCall.before,
                                     [i \in 1..(bad - 1) |->
                                         EntryOfLine(LastCall.arg[i])],
                                     bad - 1)
        /\ LastCall.op = "SetHeadersFromJSON" =>
              /\ (LastCall.err # "") = (LastCall.arg \notin StringObjects)
              /\ LastCall.err # "" => After = LastCall.before
        /\ LastCall.op \in {"SetHeader", "SetHeaders", "DelHeader",
                            "ClearHeaders"} => LastCall.err = ""

\* a list whose second pair has one element: the first pair is applied,
\* the third is not
C32_Witness ==
    /\ LastCall.pc = "done"
    /\ LastCall.op = "SetHeadersFromSlice"
    /\ LastCall.err # ""
    /\ Len(LastCall.arg) = 3
    /\ BadPair(LastCall.arg[2])
    /\ LastCall.before = <<[name |-> "x-source", value |-> "1"]>>
    /\ After = <<[name |-> "x-source", value |-> "1"],
                 [name |-> "accept", value |-> "1"]>>

----------------------------------------------------------------------------
(* Which record an assembly uses *)

\* the record stored last, 0 if none was stored
StoredLast == IF storeLog = <<>> THEN 0 ELSE storeLog[Len(storeLog)].details

\* thread t selects the record of its assembly in this step
Selects(t) == th[t].pc = "snap" /\ th'[t].pc # "snap"

\* C33: an assembly made after two dials were stored uses the record of
\* the dial whose handshake completed, and was stored, last, whichever of
\* the two dials began first
C33_UsesLastCompletedHandshake ==
    [][\A t \in Threads :
          (/\ Selects(t)
           /\ Len(storeLog) = 2
           /\ storeLog[1].details # storeLog[2].details)
              => th'[t].sel = StoredLast]_vars

----------------------------------------------------------------------------
(* Calls that do not overlap: New, DialTLS and Request, one at a time *)

\* TrackedDialer.DialTLS with a handshake that succeeds: the details made
\* at clock, the capture of the hook, the second capture, the store
DialTLS(heap, conns, clock, addr, serverName) ==
    LET cs == ConnectionState(addr, FALSE)
        v == VerifyConnection(NewDetails(clock, serverName), cs, "none")
        details == CaptureState(v.details,
                                [cs EXCEPT !.HandshakeComplete = TRUE])
    IN  [heap |-> Append(heap, details),
         connections |-> StoreConnection(conns, addr, Len(heap) + 1)]

\* the clients init() constructs, and the names later calls of New use
LaterNames == {"Safari17", "Edge120"}

InitSequential ==
    /\ now = 1
    /\ recs = <<>>
    /\ connections = NewTLSTracker
    /\ trackers = [c \in Clients |-> NewClientTracker(c)]
    /\ lastFingerprint =
           [c \in Clients |-> Assembled(c, Deref(<<>>, 0), 0, 0)]
    /\ pool = [c \in Clients |-> {}]
    /\ th = [t \in Threads |-> IdleThread]
    /\ storeLog = <<>>
    /\ written = {}
    /\ ops = 0
    /\ clientHeaders = [c \in Clients |-> NewOrderedHeaders]

\* what the caller holds after a call
Outcome(op, c, addr, dialed, resp) ==
    [pc |-> "done", op |-> op, client |-> c, addr |-> addr,
     dialed |-> dialed, resp |-> resp, registry |-> connections,
     heap |-> recs]

SeqNewWithoutRegistry(name) ==
    /\ ops < MaxCalls
    /\ name \notin DOMAIN trackers
    /\ ops' = ops + 1
    /\ trackers' = MapSet(trackers, name, NewClientTracker(name))
    /\ pool' = MapSet(pool, name, {})
    /\ lastFingerprint' =
           MapSet(lastFingerprint, name, Assembled(name, Nil, 0, 1))
    /\ th' = [th EXCEPT ![1] = Outcome("new", name, "none", FALSE, Nil)]
    /\ UNCHANGED <<now, recs, connections, storeLog, written, clientHeaders>>

\* New(name) for a profile no client was made of yet
SeqNew(name) ==
    /\ ops < MaxCalls
    /\ name \notin DOMAIN trackers
    /\ ops' = ops + 1
    /\ \E order \in Orders(DOMAIN connections) :
          LET tr == NewClientTracker(name)
              details == SelectLatest(recs, connections, order, "none")
              heap == UpdatedDetails(recs, details, tr)
              fp == Assembled(name, Deref(heap, details), details, 1)
          IN  /\ trackers' = MapSet(trackers, name, tr)
              /\ pool' = MapSet(pool, name, {})
              /\ recs' = heap
              /\ lastFingerprint' = MapSet(lastFingerprint, name, fp)
              /\ th' = [th EXCEPT ![1] = Outcome("new", name, "none", FALSE,
                                                 Nil)]
    /\ UNCHANGED <<now, connections, storeLog, written, clientHeaders>>

\* a direct DialTLS to addr that succeeds
SeqDial(addr) ==
    /\ ops < MaxCalls
    /\ Len(recs) < MaxRecs
    /\ ops' = ops + 1
    /\ \E dt \in {0, 1} :
          LET r == DialTLS(recs, connections, now + dt, addr, addr)
          IN  /\ now' = now + dt + 1
              /\ recs' = r.heap
              /\ connections' = r.connections
    /\ th' = [th EXCEPT ![1] = Outcome("dial", "none", addr, TRUE, Nil)]
    /\ UNCHANGED <<trackers, lastFingerprint, pool, storeLog, written,
                   clientHeaders>>

\* c.Request to addr that returns a response: the frame is tracked, the
\* transport dials unless it has an idle connection to addr, and
\* updateFingerprint assembles the record of the response
SeqRequest(c, addr) ==
    /\ ops < MaxCalls
    /\ c \in DOMAIN trackers
    /\ addr \in pool[c] \/ Len(recs) < MaxRecs
    /\ ops' = ops + 1
    /\ \E dt \in {0, 1} :
          LET dials == addr \notin pool[c]
              r == IF dials
                   THEN DialTLS(recs, connections, now + dt, addr, "")
                   ELSE [heap |-> recs, connections |-> connections]
              tr == TrackRequest(trackers[c])
          IN  \E order \in Orders(DOMAIN r.connections) :
                 LET details == SelectLatest(r.heap, r.connections, order,
                                             addr)
                     heap == UpdatedDetails(r.heap, details, tr)
                     fp == Assembled(c, Deref(heap, details), details, 1)
                 IN  /\ now' = IF dials THEN now + dt + 1 ELSE now
                     /\ connections' = r.connections
                     /\ trackers' = [trackers EXCEPT ![c] = tr]
                     /\ pool' = [pool EXCEPT ![c] = @ \cup {addr}]
                     /\ recs' = heap
                     /\ lastFingerprint' =
                            [lastFingerprint EXCEPT ![c] = fp]
                     /\ th' = [th EXCEPT ![1] =
                                  Outcome("request", c, addr, dials,
                                          Some(fp))]
    /\ UNCHANGED <<storeLog, written, clientHeaders>>

NextSequential ==
    \/ \E name \in LaterNames : SeqNew(name)
    \/ \E addr \in Addrs : SeqDial(addr)
    \/ \E c \in Clients \cup LaterNames, addr \in Addrs : SeqRequest(c, addr)

SpecSequential == InitSequential /\ [][NextSequential]_vars

----------------------------------------------------------------------------
(* The record of a response when calls do not overlap *)

\* the call that returned last
LastOutcome == th[1]

\* the details a cached or attached record x was assembled from
DetailsOf(x) == x.d[1]

\* C34: when no two calls overlap, the record of a response holds the
\* TLS facts of the connection to the request's own address, also when
\* the request reused an idle connection after a dial to another address
C34_OwnDestinationWhenSequential ==
    (LastOutcome.pc = "done" /\ LastOutcome.op = "request") =>
        /\ LastOutcome.resp[1].from # 0
        /\ DetailsOf(LastOutcome.resp[1]).TLSVersion
               = Negotiated(LastOutcome.addr).Version
        /\ DetailsOf(LastOutcome.resp[1]).CipherSuite
               = Negotiated(LastOutcome.addr).CipherSuite
        /\ DetailsOf(LastOutcome.resp[1]).PeerCertificates
               = <<LastOutcome.addr>>
        /\ FingerprintOf(LastOutcome.resp[1]).TLSVersionNegotiated
               = FormatUint(Negotiated(LastOutcome.addr).Version)

----------------------------------------------------------------------------
(* The record a new client starts with *)

\* the entries of the registry m over the heap with the latest ConnectedAt
LatestOf(heap, m) ==
    { m[a] : a \in { a \in DOMAIN m :
                       \A b \in DOMAIN m :
                           heap[m[b]].ConnectedAt <= heap[m[a]].ConnectedAt } }

\* C38: the record a client has when New returns is the fallback record
\* exactly if the registry was empty then; otherwise it is built from the
\* facts negotiated on the latest connection of the registry, whoever
\* dialed it, with the new client's own template and preset frames
C38_NewStartsFromRegistry ==
    /\ ops = 0 =>
          \A c \in Clients :
              FingerprintOf(lastFingerprint[c])
                  = generateFallbackFingerprint(Profile(c))
    /\ (LastOutcome.pc = "done" /\ LastOutcome.op = "new") =>
          LET c == LastOutcome.client
              x == lastFingerprint[c]
          IN  /\ (FingerprintOf(x) = generateFallbackFingerprint(Profile(c)))
                     = (DOMAIN LastOutcome.registry = {})
              /\ DOMAIN LastOutcome.registry # {} =>
                    /\ x.from \in LatestOf(LastOutcome.heap,
                                           LastOutcome.registry)
                    /\ FingerprintOf(x).TLSVersionNegotiated
                           = FormatUint(LastOutcome.heap[x.from].TLSVersion)
                    /\ FingerprintOf(x).JA3 = Profile(c).JA3
                    /\ FingerprintOf(x).HTTP2 # Nil
                    /\ FingerprintOf(x).HTTP2[1].Settings
                           = GetSettings(NewClientTracker(c))
                    /\ FingerprintOf(x).HTTP2[1].SentFrames
                           = CreateHTTP2FrameForProfile(c)

\* a Safari client made after a Chrome client's request dialed: its
\* record has the version negotiated on that connection and the Safari
\* preset
C38_Witness ==
    /\ LastOutcome.pc = "done"
    /\ LastOutcome.op = "new"
    /\ LastOutcome.client = "Safari17"
    /\ DOMAIN LastOutcome.registry = {"a.example:443"}
    /\ "a.example:443" \in pool["Chrome120"]
    /\ lastFingerprint["Safari17"].from # 0
    /\ FingerprintOf(lastFingerprint["Safari17"]).TLSVersionNegotiated
           = <<"7", "7", "2">>
    /\ FingerprintOf(lastFingerprint["Safari17"]).HTTP2[1].SentFrames
           = CreateDefaultSafariFrames
    /\ "Edge120" \in DOMAIN lastFingerprint
    /\ lastFingerprint["Edge120"].from = 0

----------------------------------------------------------------------------
(* Client.GetJA4 and Client.GetJA4R *)

\* c.lastFingerprint: nil for a name no client was made of
Cached(c) == IF c \in DOMAIN lastFingerprint THEN Some(lastFingerprint[c]) ELSE Nil

\* the ALPN list of a profile
ProfileALPN == <<"h2", "http/1.1">>

\* the computation from the template, after "if c.lastFingerprint != nil"
TemplateJA4(c) ==
    LET ja3 == ParseJA3(Profile(c).JA3)
    IN  IF ja3.err # "" THEN <<>>
        ELSE GenerateJA4(ja3.tlsVersion, ja3.cipherSuites, ja3.extensions,
                         ja3.supportedGroups, ProfileALPN)

TemplateJA4R(c) ==
    LET ja3 == ParseJA3(Profile(c).JA3)
    IN  IF ja3.err # "" THEN <<>>
        ELSE GenerateJA4R(ja3.tlsVersion, ja3.cipherSuites, ja3.extensions,
                          ja3.supportedGroups, ProfileALPN)

\* Client.GetJA4, Client.GetJA4R
ClientGetJA4(c) ==
    IF Cached(c) # Nil THEN FingerprintOf(Cached(c)[1]).JA4
    ELSE TemplateJA4(c)

ClientGetJA4R(c) ==
    IF Cached(c) # Nil THEN FingerprintOf(Cached(c)[1]).JA4_R
    ELSE TemplateJA4R(c)

\* C39: every client that New returned has a cached record, so GetJA4
\* and GetJA4R give that record's fields and never what the template
\* would give; while the cached record is the fallback record they give
\* the empty string
C39_GettersReadTheCachedRecord ==
    \A c \in DOMAIN trackers :
        /\ Cached(c) # Nil
        /\ ClientGetJA4(c) = FingerprintOf(lastFingerprint[c]).JA4
        /\ ClientGetJA4R(c) = FingerprintOf(lastFingerprint[c]).JA4_R
        /\ lastFingerprint[c].from = 0 =>
              /\ ClientGetJA4(c) = <<>>
              /\ ClientGetJA4R(c) = <<>>
              /\ TemplateJA4(c) # <<>>
              /\ TemplateJA4R(c) # <<>>

\* a client made by a later New holds the fallback record while another
\* client holds a record with a JA4 that is not the template's
C39_Witness ==
    /\ "Safari17" \in DOMAIN trackers
    /\ lastFingerprint["Safari17"].from = 0
    /\ ClientGetJA4("Safari17") = <<>>
    /\ lastFingerprint["Chrome120"].from # 0
    /\ ClientGetJA4("Chrome120") # <<>>
    /\ ClientGetJA4("Chrome120") # TemplateJA4("Chrome120")

----------------------------------------------------------------------------
(* What a dial leaves unwritten *)

\* the fields of its record a dial writes after making it
DialWrites ==
    {"TLSVersion", "CipherSuite", "PeerCertificates", "HandshakeComplete"}

----------------------------------------------------------------------------
(* The record of a response when requests overlap *)

\* C35: the record attached to a response is the one its own request
\* assembled, also when another request runs on the same client at the
\* same time
C35_ResponseCarriesOwnRecord ==
    \A t \in Threads :
        (th[t].pc = "done" /\ th[t].op = "request" /\ th[t].resp # Nil) =>
            /\ th[t].mine # Nil
            /\ th[t].resp = th[t].mine
            /\ th[t].resp[1].by = t

----------------------------------------------------------------------------
(* The cached record and requests that fail *)

\* thread t assembles and caches a record in this step
Caches(t) == th[t].pc = "gen" /\ th'[t].pc = "ret"

\* thread t is in a request that has not failed and is past the round
\* trip and the body read
PastErrors(t) == th[t].pc \in {"snap", "wrS", "wrF", "wrW", "wrP", "gen", "ret"}

\* C37: a request that returns an error has assembled no record and no
\* step of it changes the cached record of its client; the cached record
\* of a client changes only in the assembly of a request that goes on to
\* return a response
C37_FailedRequestKeepsCache ==
    /\ [](\A t \in Threads :
            /\ (th[t].pc = "done" /\ th[t].op = "request" /\ th[t].err # "")
                   => (th[t].mine = Nil /\ th[t].resp = Nil)
            /\ PastErrors(t) => (th[t].op = "request" /\ th[t].err = "")
            /\ (th[t].pc = "done" /\ th[t].op = "request" /\ th[t].err = "")
                   => th[t].resp # Nil)
    /\ [][\A c \in Clients :
             lastFingerprint'[c] # lastFingerprint[c] =>
                 \E t \in Threads :
                     /\ th[t].client = c
                     /\ Caches(t)
                     /\ lastFingerprint'[c] = th'[t].mine[1]]_vars

\* a request that failed after its dial had begun, on a client whose
\* cached record an earlier request assembled from a connection
C37_Witness ==
    \E t, u \in Threads :
        /\ t # u
        /\ th[t].pc = "done" /\ th[t].op = "request"
        /\ th[t].err = "request failed"
        /\ th[t].details # 0
        /\ th[u].pc = "done" /\ th[u].op = "request" /\ th[u].resp # Nil
        /\ th[u].client = th[t].client
        /\ lastFingerprint[th[t].client] = th[u].resp[1]
        /\ lastFingerprint[th[t].client].from # 0
        /\ Len(GetFrames(trackers[th[t].client])) = 4

----------------------------------------------------------------------------
(* Where the version and the lists of JA4, JA4_R and PeetPrint come from *)

\* the text up to the first sep, all of s when there is none
Before(s, sep) ==
    IF \E i \in 1..Len(s) : s[i] = sep
    THEN SubSeq(s, 1, (CHOOSE i \in 1..Len(s) :
                          s[i] = sep /\ \A j \in 1..(i - 1) : s[j] # sep) - 1)
    ELSE s

\* the two-character version tag of JA4 for the versions a dial records
VersionTag(v) == IF v = 772 THEN <<"1", "3">> ELSE <<"1", "2">>

\* C36: in a record assembled from connection details with a template
\* that parses, JA4, JA4_R and PeetPrint carry the version negotiated on
\* the connection and the cipher, extension and group lists of the
\* profile's template, and the record version of PeetPrint is the version
\* field of the template
C36_NegotiatedVersionTemplateLists ==
    \A t \in Threads :
        (/\ th[t].mine # Nil /\ th[t].mine[1].d # Nil
         /\ th[t].client \notin MalformedProfiles) =>
            LET fp == FingerprintOf(th[t].mine[1])
                d  == th[t].mine[1].d[1]
                template == ParseJA3(Profile(th[t].client).JA3)
            IN  /\ SubSeq(fp.JA4, 1, 3) = <<"t">> \o VersionTag(d.TLSVersion)
                /\ SubSeq(fp.JA4_R, 1, 3) = <<"t">> \o VersionTag(d.TLSVersion)
                /\ fp.JA4 = GenerateJA4(d.TLSVersion, template.cipherSuites,
                                        template.extensions,
                                        template.supportedGroups,
                                        d.ALPNProtocols)
                /\ fp.JA4_R = GenerateJA4R(d.TLSVersion,
                                           template.cipherSuites,
                                           template.extensions,
                                           template.supportedGroups,
                                           d.ALPNProtocols)
                /\ Before(fp.PeetPrint, "|") =
                       FormatUint(d.TLSVersion) \o <<"-">>
                           \o FormatUint(template.tlsVersion)
                /\ fp.PeetPrint =
                       GeneratePeetPrint(d.TLSVersion, template.tlsVersion,
                                         template.cipherSuites,
                                         template.extensions,
                                         template.supportedGroups,
                                         d.SignatureAlgorithms)

\* a record assembled for the profile whose template is
\* 771,4865-4866,0-23,29-23,0 from a connection that negotiated 772: JA4
\* starts t13 and PeetPrint starts 772-771
C36_Witness ==
    \E t \in Threads :
        /\ th[t].mine # Nil /\ th[t].mine[1].d # Nil
        /\ th[t].client = "Firefox121"
        /\ th[t].mine[1].d[1].TLSVersion = 772
        /\ ParseJA3(FirefoxJA3).tlsVersion = 771
        /\ SubSeq(FingerprintOf(th[t].mine[1]).JA4, 1, 3) = <<"t", "1", "3">>
        /\ Before(FingerprintOf(th[t].mine[1]).PeetPrint, "|") =
               <<"7", "7", "2", "-", "7", "7", "1">>
        /\ FingerprintOf(th[t].mine[1]).JA4_R =
               <<"t", "1", "3", "d", "_">>
                   \o <<"1", "3", "0", "1", ",", "1", "3", "0", "2", "_">>
                   \o <<"0", "0", "0", "0", ",", "0", "0", "1", "7", "_">>
                   \o <<"0", "0", "1", "d", ",", "0", "0", "1", "7">>

====
